---- MODULE Spec2Model ----
(***************************************************************************)
(* Sticker template rendering engine of ElectroManager (src/qr_utils.py):  *)
(* placeholder resolution, QR / barcode fragment generation with format    *)
(* fallback, and the vector renderer that walks a template layout.         *)
(*                                                                         *)
(* Every function of the module is synchronous and keeps no state between  *)
(* calls, so each one is modelled as an operator computed the way the code *)
(* computes it, and applied by one action to arguments that Init draws     *)
(* from bounded sets.  Strings are sequences of symbols: one-character     *)
(* strings, and token names, each held as one symbol.                      *)
(* The codec libraries (qrcode, python-barcode, PIL) are not part of the   *)
(* repository: whether an import or an encoding attempt succeeds is an     *)
(* input of the call, chosen freely.                                       *)
(***************************************************************************)
EXTENDS Integers, Sequences, FiniteSets, TLC

VARIABLES
    barcode_args,   \* arguments and library outcomes of a generate_barcode_svg call
    barcode_ret,    \* its outcome, Pending before the call has run
    qr_args,        \* arguments and library outcomes of a generate_qr_svg call
    qr_ret,         \* its outcome, Pending before the call has run
    resolve_args,   \* text and token table of a replace_placeholders call
    resolve_ret,    \* its outcome, Pending before the call has run
    render_args,    \* template, token table and library outcomes of a render call
    render_ret,     \* its outcome, Pending before the call has run
    single_args,    \* template, item, fonts and engine outcomes of a single sticker print
    single_ret,     \* outcome of generate_single_sticker_pdf, Pending before the call
    batch_args,     \* template, records, fonts and engine outcomes of a batch print
    batch_ret,      \* outcome of generate_batch_stickers_pdf, Pending before the call
    response,       \* HTTP response of a print route, Pending before the request
    templates,      \* the sticker_template table: template id -> stored row
    store_reply,    \* outcome of the last request made to the template routes
    preview_args,   \* JSON body and library outcomes of a preview-element request
    preview_ret,    \* the pixel box and fragment it answers with, Pending before
    calls           \* the render calls in progress: worker -> its arguments and locals

codes_vars   == <<barcode_args, barcode_ret, qr_args, qr_ret>>
resolve_vars == <<resolve_args, resolve_ret>>
render_vars  == <<render_args, render_ret>>
compose_vars == <<single_args, single_ret, batch_args, batch_ret, response>>
store_vars   == <<templates, store_reply>>
preview_vars == <<preview_args, preview_ret>>
workers_vars == <<calls>>
vars == <<codes_vars, resolve_vars, render_vars, compose_vars, store_vars, preview_vars,
          workers_vars>>

\* A call that has not run yet / a variable of a function no call is made to.
Pending == [state |-> "pending"]
Unused  == [state |-> "unused"]

\* The variables of a component no call is made to
CodesIdle   == barcode_args = Unused /\ barcode_ret = Pending /\ qr_args = Unused /\ qr_ret = Pending
ResolveIdle == resolve_args = Unused /\ resolve_ret = Pending
RenderIdle  == render_args = Unused /\ render_ret = Pending
ComposeIdle == /\ single_args = Unused /\ single_ret = Pending
               /\ batch_args = Unused /\ batch_ret = Pending
               /\ response = Pending
StoreIdle   == templates = <<>> /\ store_reply = Pending
PreviewIdle == preview_args = Unused /\ preview_ret = Pending
WorkersIdle == calls = <<>>

(***************************************************************************)
(* Bounds                                                                  *)
(***************************************************************************)
MaxDataLen == 3          \* longest data string handed to a code generator
MaxTextLen == 6          \* longest template string handed to the resolver
MaxElements == 3         \* most elements in a rendered layout

(***************************************************************************)
(* Strings                                                                 *)
(***************************************************************************)
Digits == {"0", "1", "2", "3", "4", "5", "6", "7", "8", "9"}

StringsOver(alphabet, n) == UNION {[1..k -> alphabet] : k \in 0..n}

\* str.startswith / str.endswith with a one-character argument
Range(s) == {s[i] : i \in DOMAIN s}

StartsWith(s, c) == Len(s) > 0 /\ s[1] = c
EndsWith(s, c)   == Len(s) > 0 /\ s[Len(s)] = c

\* str.isdigit(): at least one character and every character a digit
IsDigit(s) == Len(s) > 0 /\ \A i \in 1..Len(s) : s[i] \in Digits

(***************************************************************************)
(* JSON values as they arrive in a layout or a request body: a number or a *)
(* string.  A field that is absent is absent from the element's DOMAIN.    *)
(***************************************************************************)
JNum(n) == [num |-> n]
JStr(s) == [str |-> s]
IsNum(v) == "num" \in DOMAIN v
IsStr(v) == "str" \in DOMAIN v

(***************************************************************************)
(* Error placeholder fragments                                             *)
(***************************************************************************)
\* qr_utils.py:284 / :387 -- light grey rectangle, red stroke, caption
\* centred at (width/2, height/2).  width and height are Python ints here
\* (every caller passes int(...)), so width/2 never raises; halves are kept
\* as the doubled value to stay in the integers.
PlaceholderFragment(caption, width, height) ==
    [kind |-> "placeholder", width |-> width, height |-> height,
     fill |-> "lightgray", stroke |-> "red", caption |-> caption,
     text_x2 |-> width, text_y2 |-> height]

(***************************************************************************)
(* generate_barcode_svg                                                    *)
(***************************************************************************)
valid_formats == {"CODE128", "CODE39", "EAN13", "EAN8", "UPCA", "UPCE"}
NumericOnlyFormats == {"EAN13", "EAN8", "UPCA", "UPCE"}

\* qr_utils.py:298-302
MutValidateKeepsFormat(format_type) == format_type

ValidateFormat(format_type) ==
    IF format_type \notin valid_formats THEN "CODE128" ELSE format_type

\* qr_utils.py:298-312: the format the first encoding attempt is made with
MutResolveNoBraceRule(data, format_type) ==
    LET f == ValidateFormat(format_type) IN
    IF f \in NumericOnlyFormats /\ ~IsDigit(data) THEN "CODE128" ELSE f

MutResolveNoDigitRule(data, format_type) ==
    LET f == ValidateFormat(format_type) IN
    IF StartsWith(data, "{") /\ EndsWith(data, "}") THEN "CODE128" ELSE f

ResolveFormat(data, format_type) ==
    LET f == ValidateFormat(format_type) IN
    IF StartsWith(data, "{") /\ EndsWith(data, "}")
    THEN "CODE128"
    ELSE IF f \in NumericOnlyFormats
         THEN (IF ~IsDigit(data) THEN "CODE128" ELSE f)
         ELSE f

\* One call of the encoder: barcode.get_barcode_class(format.lower()),
\* BarCodeClass(data, writer), write(...) with or without the text label.
EncoderCall(format_type, data, show_label) ==
    [format |-> format_type, data |-> data, label |-> show_label]

\* The <svg> wrapper around the base64 PNG (qr_utils.py:343-345, 375-377)
BarcodeImage(format_type, width, height) ==
    [kind |-> "barcode", width |-> width, height |-> height, format |-> format_type]

\* qr_utils.py:314-380: the inner try and its except handler.  first_ok and
\* retry_ok say whether the library calls of each block run through.
\* Result: the encoder calls made, and the fragment or the exception that
\* leaves the handler.
MutAttemptsRetrySameFormat(data, format_type, width, height, show_label, first_ok, retry_ok) ==
    IF first_ok
    THEN [attempts |-> <<EncoderCall(format_type, data, show_label)>>,
          raised |-> FALSE, fragment |-> BarcodeImage(format_type, width, height)]
    ELSE [attempts |-> <<EncoderCall(format_type, data, show_label),
                         EncoderCall(format_type, data, show_label)>>,
          raised |-> ~retry_ok,
          fragment |-> BarcodeImage(format_type, width, height)]

EncodeWithFallback(data, format_type, width, height, show_label, first_ok, retry_ok) ==
    IF first_ok
    THEN [attempts |-> <<EncoderCall(format_type, data, show_label)>>,
          raised |-> FALSE, fragment |-> BarcodeImage(format_type, width, height)]
    ELSE [attempts |-> <<EncoderCall(format_type, data, show_label),
                         EncoderCall("CODE128", data, show_label)>>,
          raised |-> ~retry_ok,
          fragment |-> BarcodeImage("CODE128", width, height)]

\* qr_utils.py:288-389.  data is a JSON value: the renderer always passes a
\* string, the element preview passes the request's "content" as it came.
\* lib = [imports, first, retry]: whether the imports, the first attempt
\* and the retry run through.
MutBarcodeSecondFailureRaises(data, format_type, width, height, show_label, lib) ==
    IF ~lib.imports \/ ~IsStr(data)
    THEN [state |-> "returned", attempts |-> <<>>,
          fragment |-> PlaceholderFragment("Barcode Error", width, height)]
    ELSE LET r == EncodeWithFallback(data.str, ResolveFormat(data.str, format_type),
                                     width, height, show_label, lib.first, lib.retry)
         IN  IF r.raised
             THEN [state |-> "raised", attempts |-> r.attempts]
             ELSE [state |-> "returned", attempts |-> r.attempts, fragment |-> r.fragment]

GenerateBarcodeSvg(data, format_type, width, height, show_label, lib) ==
    IF ~lib.imports
    THEN \* ImportError at 292-296, caught at 382
         [state |-> "returned", attempts |-> <<>>,
          fragment |-> PlaceholderFragment("Barcode Error", width, height)]
    ELSE IF ~IsStr(data)
    THEN \* data.startswith raises AttributeError at 305, caught at 382
         [state |-> "returned", attempts |-> <<>>,
          fragment |-> PlaceholderFragment("Barcode Error", width, height)]
    ELSE LET r == EncodeWithFallback(data.str, ResolveFormat(data.str, format_type),
                                     width, height, show_label, lib.first, lib.retry)
         IN  IF r.raised
             THEN \* the retry raised inside the handler: caught at 382
                  [state |-> "returned", attempts |-> r.attempts,
                   fragment |-> PlaceholderFragment("Barcode Error", width, height)]
             ELSE [state |-> "returned", attempts |-> r.attempts, fragment |-> r.fragment]

(***************************************************************************)
(* generate_qr_svg                                                         *)
(***************************************************************************)
EcLevels == {"L", "M", "Q", "H"}

\* qr_utils.py:240-246
EcLevel(error_correction) ==
    IF error_correction \in EcLevels THEN error_correction ELSE "M"

\* qr_utils.py:232-286.  lib = [imports, encode, svg_match]: whether the
\* imports run through, whether add_data / make / make_image / save run
\* through, and whether the regular expression finds an <svg> element in
\* the library's output.
GenerateQrSvg(data, width, height, error_correction, lib) ==
    IF ~lib.imports \/ ~lib.encode
    THEN [state |-> "returned",
          fragment |-> PlaceholderFragment("QR Error", width, height)]
    ELSE IF lib.svg_match
    THEN [state |-> "returned",
          fragment |-> [kind |-> "qr", width |-> width, height |-> height,
                        data |-> data, ec |-> EcLevel(error_correction)]]
    ELSE \* line 278: the library's output is returned as it is
         [state |-> "returned",
          fragment |-> [kind |-> "qr_raw", data |-> data,
                        ec |-> EcLevel(error_correction)]]

(***************************************************************************)
(* Placeholder resolver                                                    *)
(***************************************************************************)
\* A token name is one symbol of the alphabet: '{ItemName}' is the three
\* symbols "{", "ItemName", "}".
Token(key) == <<"{", key, "}">>

\* A character under resolution together with its origin: val is FALSE for
\* a character of the template text and TRUE for a character that entered
\* the string as part of a token's value.  The code does not see the origin.
Mark(s, v) == [i \in 1..Len(s) |-> [ch |-> s[i], val |-> v]]
Plain(m) == [i \in 1..Len(m) |-> m[i].ch]

\* str.replace(old, new) with a non-empty old: the non-overlapping
\* occurrences of old are replaced from left to right, and the search goes
\* on after the occurrence, never inside the text just inserted.  hit says
\* whether a replaced occurrence contained a character of a token's value.
RECURSIVE MutReplaceFirstOnly(_, _, _)
MutReplaceFirstOnly(m, old, new) ==
    IF Len(m) < Len(old)
    THEN [out |-> m, hit |-> FALSE]
    ELSE IF Plain(SubSeq(m, 1, Len(old))) = old
         THEN [out |-> Mark(new, TRUE) \o SubSeq(m, Len(old) + 1, Len(m)),
               hit |-> \E i \in 1..Len(old) : m[i].val]
         ELSE LET rest == MutReplaceFirstOnly(Tail(m), old, new)
              IN  [out |-> <<m[1]>> \o rest.out, hit |-> rest.hit]

RECURSIVE StrReplace(_, _, _)
StrReplace(m, old, new) ==
    IF Len(m) < Len(old)
    THEN [out |-> m, hit |-> FALSE]
    ELSE IF Plain(SubSeq(m, 1, Len(old))) = old
         THEN LET rest == StrReplace(SubSeq(m, Len(old) + 1, Len(m)), old, new)
              IN  [out |-> Mark(new, TRUE) \o rest.out,
                   hit |-> rest.hit \/ \E i \in 1..Len(old) : m[i].val]
         ELSE LET rest == StrReplace(Tail(m), old, new)
              IN  [out |-> <<m[1]>> \o rest.out, hit |-> rest.hit]

\* qr_utils.py:62-63: one replace per entry of the dict, in the dict's order,
\* each on the result of the one before.
RECURSIVE ReplaceLoop(_, _, _)
ReplaceLoop(result, items, rescanned) ==
    IF items = <<>>
    THEN [state |-> "returned", text |-> Plain(result), rescanned |-> rescanned]
    ELSE LET r == StrReplace(result, Token(items[1].key), items[1].value)
         IN  ReplaceLoop(r.out, Tail(items), rescanned \/ r.hit)

\* qr_utils.py:59-64.  data_dict is the sequence of the dict's entries in
\* insertion order.
ReplacePlaceholders(text, data_dict) == ReplaceLoop(Mark(text, FALSE), data_dict, FALSE)

(***************************************************************************)
(* Token tables                                                            *)
(***************************************************************************)
DigitChar(d) == <<"0", "1", "2", "3", "4", "5", "6", "7", "8", "9">>[d + 1]

\* str(n) of a non-negative int
RECURSIVE IntToStr(_)
IntToStr(n) == IF n < 10 THEN <<DigitChar(n)>>
               ELSE IntToStr(n \div 10) \o <<DigitChar(n % 10)>>

\* f"${price:.2f}", the price held in whole cents
FormatPrice(cents) ==
    <<"$">> \o IntToStr(cents \div 100) \o <<".">>
            \o <<DigitChar((cents % 100) \div 10), DigitChar(cents % 10)>>

Entry(k, v) == [key |-> k, value |-> v]

\* qr_utils.py:23-35.  An absent (None) column and an empty one give the
\* same entry ("x or ''", "if x"), so None is held as the empty string, a
\* missing price as 0 and a missing category / location / rack as the empty
\* name.
GetItemData(item) ==
    << Entry("ItemUUID", <<"i", "t", "e", "m", "/">> \o item.uuid),
       Entry("ItemName", item.name),
       Entry("SKU", item.sku),
       Entry("Price", IF item.price # 0 THEN FormatPrice(item.price) ELSE <<>>),
       Entry("Quantity", IntToStr(item.quantity)),
       Entry("Category", item.category),
       Entry("LocationName", item.general_location),
       Entry("RackName", item.rack),
       Entry("Drawer", IF item.drawer # <<>>
                       THEN <<"d", "r", "a", "w", "e", "r", "/">> \o item.drawer
                       ELSE <<>>) >>

\* qr_utils.py:48-57.  item_count is the result of the count query.
GetRackData(rack, item_count) ==
    << Entry("RackUUID", <<"r", "a", "c", "k", "/">> \o rack.uuid),
       Entry("RackName", rack.name),
       Entry("Capacity", IntToStr(rack.rows * rack.cols)),
       Entry("ItemCount", IntToStr(item_count)) >>

\* qr_utils.py:37-46
GetLocationData(location, item_count) ==
    << Entry("LocationUUID", <<"l", "o", "c", "a", "t", "i", "o", "n", "/">> \o location.uuid),
       Entry("LocationName", location.name),
       Entry("LocationInfo", location.info),
       Entry("ItemCount", IntToStr(item_count)) >>

Keys(data_dict) == {data_dict[i].key : i \in DOMAIN data_dict}

(***************************************************************************)
(* Vector renderer                                                         *)
(***************************************************************************)
\* qr_utils.py:84, MM_TO_PX = 3.78, in hundredths: every pixel coordinate
\* of the model is held in hundredths of a pixel, so that mm * 3.78 and the
\* halves of it are integers.
MM_TO_PX_x100 == 378

\* int(px) of a coordinate held in hundredths: truncation towards zero
IntPx(v) == IF v >= 0 THEN v \div 100 ELSE -((-v) \div 100)

\* dict access: element[f] exists / element.get(f, default)
Has(element, f) == f \in DOMAIN element
Get(element, f, default) == IF Has(element, f) THEN element[f] ELSE default

\* plain str.replace
Replace(s, old, new) == Plain(StrReplace(Mark(s, FALSE), old, new).out)

\* qr_utils.py:152
XmlEscape(content) ==
    Replace(Replace(Replace(Replace(content,
        <<"&">>, <<"&", "a", "m", "p", ";">>),
        <<"<">>, <<"&", "l", "t", ";">>),
        <<">">>, <<"&", "g", "t", ";">>),
        <<"\"">>, <<"&", "q", "u", "o", "t", ";">>)

\* replace_placeholders on a layout value: with a non-empty dict a value
\* that is no string has no .replace (AttributeError at line 63); with an
\* empty dict the loop body never runs and the value is returned as it is.
ResolveValue(v, data) ==
    IF data = <<>> THEN [raised |-> FALSE, value |-> v]
    ELSE IF ~IsStr(v) THEN [raised |-> TRUE]
    ELSE [raised |-> FALSE, value |-> JStr(ReplacePlaceholders(v.str, data).text)]

Raised == [raised |-> TRUE, nodes |-> <<>>]
Emitted(nodes) == [raised |-> FALSE, nodes |-> nodes]

\* qr_utils.py:201-207 / 220-226: the renderer's own fallback nodes, a grey
\* rectangle and a <text> with the fixed caption
FallbackNodes(caption, x_px, y_px, w_px, h_px) ==
    << [kind |-> "rect", x |-> x_px, y |-> y_px, width |-> w_px, height |-> h_px,
        fill |-> "lightgray", stroke |-> "red"],
       [kind |-> "caption", x |-> x_px + w_px \div 2, y |-> y_px + h_px \div 2,
        font_size |-> 800, anchor |-> "middle", caption |-> caption] >>

\* qr_utils.py:176-183: the anchor of a text node and the x it is written at
TextAnchor(text_align) ==
    CASE text_align = "center" -> "middle"
      [] text_align = "right"  -> "end"
      [] OTHER                 -> "start"

MutTextXNoOffset(text_align, x_px, w_px) == x_px

TextX(text_align, x_px, w_px) ==
    CASE text_align = "center" -> x_px + w_px \div 2
      [] text_align = "right"  -> x_px + w_px
      [] OTHER                 -> x_px

\* qr_utils.py:146-190
RenderText(element, data, x_px, y_px, w_px) ==
    LET content == ResolveValue(Get(element, "content", JStr(<<>>)), data)
        font_size_mm == Get(element, "font_size_mm", JNum(4))
        truthy == IF IsNum(font_size_mm) THEN font_size_mm.num # 0
                  ELSE font_size_mm.str # <<>>
        text_align == Get(element, "text_align", "left")
        family == Get(element, "font_family", "")
        font_family == IF family = "" \/ family = "default" THEN "Arial" ELSE family
    IN  IF content.raised \/ ~IsStr(content.value) THEN Raised
        ELSE IF truthy /\ ~IsNum(font_size_mm) THEN Raised
        ELSE Emitted(<<
            [kind |-> "text",
             x |-> TextX(text_align, x_px, w_px),
             y |-> y_px,
             font_size |-> IF truthy THEN font_size_mm.num * MM_TO_PX_x100
                           ELSE Get(element, "font_size", 12) * 100,
             fill |-> Get(element, "color", <<"#000000">>),
             anchor |-> TextAnchor(text_align),
             font_family |-> font_family,
             content |-> XmlEscape(content.value.str)] >>)

\* qr_utils.py:192-207.  generate_qr_svg is called without an error
\* correction argument, so with its default 'M'.
RenderQr(element, data, x_px, y_px, w_px, h_px, lib) ==
    IF ~Has(element, "source_field") THEN Raised
    ELSE LET qr_data == ResolveValue(element.source_field, data) IN
         IF qr_data.raised THEN Raised
         ELSE LET r == GenerateQrSvg(qr_data.value, IntPx(w_px), IntPx(h_px), "M", lib)
              IN  IF r.state = "returned"
                  THEN Emitted(<<[kind |-> "g", tx |-> x_px, ty |-> y_px,
                                  fragment |-> r.fragment]>>)
                  ELSE Emitted(FallbackNodes("QR Error", x_px, y_px, w_px, h_px))

\* qr_utils.py:209-226
RenderBarcode(element, data, x_px, y_px, w_px, h_px, lib) ==
    IF ~Has(element, "source_field") THEN Raised
    ELSE LET barcode_data == ResolveValue(element.source_field, data) IN
         IF barcode_data.raised THEN Raised
         ELSE LET r == GenerateBarcodeSvg(barcode_data.value,
                                          Get(element, "format", "CODE128"),
                                          IntPx(w_px), IntPx(h_px),
                                          Get(element, "show_label", FALSE), lib)
              IN  IF r.state = "returned"
                  THEN Emitted(<<[kind |-> "g", tx |-> x_px, ty |-> y_px,
                                  fragment |-> r.fragment]>>)
                  ELSE Emitted(FallbackNodes("Barcode Error", x_px, y_px, w_px, h_px))

\* qr_utils.py:141-226, the body of the loop for one element: the nodes it
\* appends to the document, or the exception that leaves the loop.  No
\* statement of lines 141-146, 148-149 or 193-194 is inside a try.
MutFragmentAtOrigin(element, data, lib) ==
    LET x_px == element.x_mm.num * MM_TO_PX_x100
        y_px == element.y_mm.num * MM_TO_PX_x100
        w_px == Get(element, "width_mm", JNum(10)).num * MM_TO_PX_x100
        h_px == Get(element, "height_mm", JNum(10)).num * MM_TO_PX_x100
    IN  IF \/ ~Has(element, "x_mm") \/ ~Has(element, "y_mm") \/ ~Has(element, "type")
           \/ \E f \in {"x_mm", "y_mm", "width_mm", "height_mm"} :
                  Has(element, f) /\ ~IsNum(element[f])
        THEN Raised
        ELSE CASE element.type = "text" -> RenderText(element, data, x_px, y_px, w_px)
               [] element.type = "qr" ->
                    RenderQr(element, data, 0, 0, w_px, h_px,
                             [imports |-> lib.imports, encode |-> lib.first,
                              svg_match |-> lib.svg_match])
               [] element.type = "barcode" ->
                    RenderBarcode(element, data, 0, 0, w_px, h_px,
                                  [imports |-> lib.imports, first |-> lib.first,
                                   retry |-> lib.retry])
               [] OTHER -> Emitted(<<>>)

RenderElement(element, data, lib) ==
    IF ~Has(element, "x_mm") \/ ~IsNum(element.x_mm) THEN Raised          \* 141
    ELSE IF ~Has(element, "y_mm") \/ ~IsNum(element.y_mm) THEN Raised     \* 142
    ELSE IF ~IsNum(Get(element, "width_mm", JNum(10))) THEN Raised        \* 143
    ELSE IF ~IsNum(Get(element, "height_mm", JNum(10))) THEN Raised       \* 144
    ELSE IF ~Has(element, "type") THEN Raised                             \* 146
    ELSE LET x_px == element.x_mm.num * MM_TO_PX_x100
             y_px == element.y_mm.num * MM_TO_PX_x100
             w_px == Get(element, "width_mm", JNum(10)).num * MM_TO_PX_x100
             h_px == Get(element, "height_mm", JNum(10)).num * MM_TO_PX_x100
         IN  CASE element.type = "text" -> RenderText(element, data, x_px, y_px, w_px)
               [] element.type = "qr" ->
                    RenderQr(element, data, x_px, y_px, w_px, h_px,
                             [imports |-> lib.imports, encode |-> lib.first,
                              svg_match |-> lib.svg_match])
               [] element.type = "barcode" ->
                    RenderBarcode(element, data, x_px, y_px, w_px, h_px,
                                  [imports |-> lib.imports, first |-> lib.first,
                                   retry |-> lib.retry])
               [] OTHER -> Emitted(<<>>)

\* qr_utils.py:140-226: the loop over the layout.  libs[i] holds the library
\* outcomes met while element i is processed; groups[i] are the nodes
\* element i appended.
RECURSIVE RenderLoop(_, _, _, _, _)
RenderLoop(layout, data, libs, idx, groups) ==
    IF idx > Len(layout) THEN [raised |-> FALSE, groups |-> groups]
    ELSE LET r == RenderElement(layout[idx], data, libs[idx])
         IN  IF r.raised THEN [raised |-> TRUE, at |-> idx]
             ELSE RenderLoop(layout, data, libs, idx + 1, Append(groups, r.nodes))

\* qr_utils.py:66-74
GetFormat(ext) ==
    CASE ext = ".woff2" -> "woff2"
      [] ext = ".woff"  -> "woff"
      [] ext = ".ttf"   -> "truetype"
      [] ext = ".otf"   -> "opentype"
      [] OTHER          -> "truetype"

\* qr_utils.py:110, the order in which the extensions are tried
FontExtensions == <<".woff2", ".woff", ".ttf", ".otf">>

\* qr_utils.py:105
system_fonts == {"system", "Arial", "Times New Roman", "Courier New", "Georgia",
                 "Verdana", "Comic Sans MS", "Trebuchet MS"}

\* A file of static/fonts: <base><style><ext>, style "" or "-Regular", ...
FontFile(base, style, ext) == [base |-> base, style |-> style, ext |-> ext]

\* qr_utils.py:94-100
FontsUsed(layout) ==
    {Get(layout[i], "font_family", "Arial") :
        i \in {j \in DOMAIN layout : Has(layout[j], "type") /\ layout[j].type = "text"}}
    \ {""}

\* qr_utils.py:110-132 for one font: the extensions are tried in order, the
\* exact name before the -Regular one; the first file that exists and can
\* be read gives the declaration, a file that cannot be read is skipped.
\* the same loop trusting every file that exists to be readable
RECURSIVE MutEmbedUnreadableFile(_, _, _)
MutEmbedUnreadableFile(font_name, fonts_dir, i) ==
    IF i > Len(FontExtensions) THEN {}
    ELSE LET ext == FontExtensions[i]
             exact == FontFile(font_name, "", ext)
             font_path == IF exact \in fonts_dir.files THEN exact
                          ELSE FontFile(font_name, "-Regular", ext)
         IN  IF font_path \in fonts_dir.files
             THEN {[font_family |-> font_name, format |-> GetFormat(ext), file |-> font_path]}
             ELSE MutEmbedUnreadableFile(font_name, fonts_dir, i + 1)

RECURSIVE EmbedFont(_, _, _)
EmbedFont(font_name, fonts_dir, i) ==
    IF i > Len(FontExtensions) THEN {}
    ELSE LET ext == FontExtensions[i]
             exact == FontFile(font_name, "", ext)
             font_path == IF exact \in fonts_dir.files THEN exact
                          ELSE FontFile(font_name, "-Regular", ext)
         IN  IF font_path \in fonts_dir.files /\ font_path \notin fonts_dir.unreadable
             THEN {[font_family |-> font_name, format |-> GetFormat(ext), file |-> font_path]}
             ELSE EmbedFont(font_name, fonts_dir, i + 1)

\* qr_utils.py:102-132: the @font-face declarations, one <style> per font;
\* their order is the iteration order of a Python set, so they are a set.
FontStyles(layout, fonts_dir) ==
    UNION {EmbedFont(f, fonts_dir, 1) : f \in FontsUsed(layout) \ system_fonts}

\* qr_utils.py:76-230.  A returned document: the <svg> header sizes, the
\* font declarations, the background rectangle, the nodes of each element
\* in layout order, and the closing tag.
RenderTemplateToSvg(template, data, libs, fonts_dir) ==
    LET width_px == template.width_mm * MM_TO_PX_x100
        height_px == template.height_mm * MM_TO_PX_x100
        body == RenderLoop(template.layout, data, libs, 1, <<>>)
    IN  IF body.raised
        THEN [state |-> "raised", at |-> body.at]
        ELSE [state |-> "returned", width |-> width_px, height |-> height_px,
              font_styles |-> FontStyles(template.layout, fonts_dir),
              background |-> [kind |-> "rect", width |-> width_px, height |-> height_px,
                              fill |-> "white", stroke |-> "black"],
              groups |-> body.groups, closed |-> TRUE]

\* What a render call leaves of the objects it was handed.  No statement of
\* qr_utils.py:76-230 assigns to a field of the template, to an element of
\* the layout or to a key of data: every access is a read (.get, [..]) and
\* str.replace returns a new string.
MutRenderFillsDefaults(template, data) ==
    [template |-> [template EXCEPT !.layout =
                      [i \in DOMAIN @ |->
                          IF Has(@[i], "width_mm") THEN @[i]
                          ELSE [f \in DOMAIN @[i] \cup {"width_mm"} |->
                                   IF f = "width_mm" THEN JNum(10) ELSE @[i][f]]]],
     data |-> data]

RenderEffect(template, data) == [template |-> template, data |-> data]

(***************************************************************************)
(* Print compositor                                                        *)
(***************************************************************************)
\* The PDF engine (weasyprint) is not part of the repository.  Whether its
\* import succeeds, and whether write_pdf returns or raises (a timeout is an
\* exception raised inside write_pdf), are inputs of a call.
EngineOutcomes == [imports : BOOLEAN, write : {"pdf", "raises", "timeout"}]

\* qr_utils.py:400, 551: svg_data.encode() wrapped in BytesIO
SvgBytes(svg_data) == [kind |-> "svg", document |-> svg_data]

\* qr_utils.py:537-545: what write_pdf leaves in the buffer for a document
PdfBytes(html_content) == [kind |-> "pdf", html |-> html_content]

\* qr_utils.py:402-404, 507-509: the @page size, mm * (1 / 25.4) inches,
\* held as a fraction
PageSize(template) ==
    [width_in  |-> [num |-> template.width_mm * 10, den |-> 254],
     height_in |-> [num |-> template.height_mm * 10, den |-> 254]]

\* qr_utils.py:422-429: the src entry of one file, None (here: nothing) when
\* the file cannot be read
EmbedFontAsBase64(font_path, format_type, fonts_dir) ==
    IF font_path \in fonts_dir.unreadable THEN <<>>
    ELSE <<[format |-> format_type, file |-> font_path]>>

\* qr_utils.py:431-443
OpenDyslexicSrcUrls(fonts_dir) ==
    LET opendyslexic_woff2 == FontFile("OpenDyslexic", "-Regular", ".woff2")
        opendyslexic_ttf   == FontFile("OpenDyslexic", "-Regular", ".ttf")
    IN  (IF opendyslexic_woff2 \in fonts_dir.files
         THEN EmbedFontAsBase64(opendyslexic_woff2, "woff2", fonts_dir) ELSE <<>>)
        \o
        (IF opendyslexic_ttf \in fonts_dir.files
         THEN EmbedFontAsBase64(opendyslexic_ttf, "truetype", fonts_dir) ELSE <<>>)

\* qr_utils.py:456-464: the names of the font files of static/fonts, the part
\* of the file name before its last '-', OpenDyslexic left out
FontNamesSet(fonts_dir) ==
    {f.base : f \in {g \in fonts_dir.files : g.ext \in Range(FontExtensions)}}
        \ {"OpenDyslexic"}

\* qr_utils.py:468-479 for one font name: every extension is tried, and
\* every file that exists and can be read is appended to src_urls
RECURSIVE ProjectSrcUrls(_, _, _)
ProjectSrcUrls(font_name, fonts_dir, i) ==
    IF i > Len(FontExtensions) THEN <<>>
    ELSE LET ext == FontExtensions[i]
             exact == FontFile(font_name, "", ext)
             font_path == IF exact \in fonts_dir.files THEN exact
                          ELSE FontFile(font_name, "-Regular", ext)
         IN  (IF font_path \in fonts_dir.files
              THEN EmbedFontAsBase64(font_path, GetFormat(ext), fonts_dir) ELSE <<>>)
             \o ProjectSrcUrls(font_name, fonts_dir, i + 1)

\* qr_utils.py:416-488: the @font-face rules of the HTML wrapper, one per
\* font name that got at least one src entry
FontFaceRules(fonts_dir) ==
    {[font_family |-> font_name, src |-> ProjectSrcUrls(font_name, fonts_dir, 1)] :
        font_name \in {n \in FontNamesSet(fonts_dir) :
                          ProjectSrcUrls(n, fonts_dir, 1) # <<>>}}
    \cup
    (IF OpenDyslexicSrcUrls(fonts_dir) # <<>>
     THEN {[font_family |-> "OpenDyslexic", src |-> OpenDyslexicSrcUrls(fonts_dir)]}
     ELSE {})

\* One <div class="sticker"> of a wrapper and the page break rule its class
\* carries (qr_utils.py:521 / 584)
Sticker(svg, page_break_after) == [svg |-> svg, page_break_after |-> page_break_after]

\* qr_utils.py:402-551, from the rendered svg_data on: the HTML wrapper, the
\* engine call, and the except that returns the vector document
WritePdfOrFallback(svg_data, template, fonts_dir, engine) ==
    IF svg_data.state = "raised"
    THEN [state |-> "raised", exception |-> "render"]
    ELSE IF engine.imports /\ engine.write = "pdf"
    THEN [state |-> "returned",
          bytes |-> PdfBytes([font_face_rules |-> FontFaceRules(fonts_dir),
                              page |-> PageSize(template),
                              stickers |-> <<Sticker(svg_data, "avoid")>>])]
    ELSE [state |-> "returned", bytes |-> SvgBytes(svg_data)]

\* the same without the except of lines 547-551
WritePdfOrRaise(svg_data, template, fonts_dir, engine) ==
    IF svg_data.state = "raised"
    THEN [state |-> "raised", exception |-> "render"]
    ELSE IF ~engine.imports
    THEN [state |-> "returned", bytes |-> SvgBytes(svg_data)]
    ELSE IF engine.write = "pdf"
    THEN [state |-> "returned",
          bytes |-> PdfBytes([font_face_rules |-> FontFaceRules(fonts_dir),
                              page |-> PageSize(template),
                              stickers |-> <<Sticker(svg_data, "avoid")>>])]
    ELSE [state |-> "raised", exception |-> "engine"]

MutEngineFailureRaises(template, data, libs, fonts_dir, engine) ==
    WritePdfOrRaise(RenderTemplateToSvg(template, data, libs, fonts_dir),
                    template, fonts_dir, engine)

\* qr_utils.py:391-551.  An exception of render_template_to_svg leaves the
\* function: neither call of it (399, 407) is inside a try.  Without the
\* engine (395-400) the vector document is returned as it is after a
\* failed write_pdf.
GenerateSingleStickerPdf(template, data, libs, fonts_dir, engine) ==
    WritePdfOrFallback(RenderTemplateToSvg(template, data, libs, fonts_dir),
                       template, fonts_dir, engine)

RECURSIVE BatchLoop(_, _, _, _, _, _, _)

\* qr_utils.py:596: the sticker of one rendered record is appended and the
\* loop goes on; an exception of the render leaves the loop
AppendSticker(svg, template, records, data_getter, libs, fonts_dir, i, stickers) ==
    IF svg.state = "raised" THEN [raised |-> TRUE, stickers |-> stickers]
    ELSE BatchLoop(template, records, data_getter, libs, fonts_dir, i + 1,
                   Append(stickers, Sticker(svg, "always")))

\* the batch loop rendering every sticker with the data of the first record
MutBatchLoopFirstRecord(template, records, data_getter, libs, fonts_dir, i, stickers) ==
    IF i > Len(records) THEN [raised |-> FALSE, stickers |-> stickers]
    ELSE AppendSticker(RenderTemplateToSvg(template, data_getter[records[1]],
                                           libs[i], fonts_dir),
                       template, records, data_getter, libs, fonts_dir, i, stickers)

\* qr_utils.py:593-596: one sticker per record, in the order of the list;
\* data_getter is held as the function from a record to its token table
BatchLoop(template, records, data_getter, libs, fonts_dir, i, stickers) ==
    IF i > Len(records) THEN [raised |-> FALSE, stickers |-> stickers]
    ELSE AppendSticker(RenderTemplateToSvg(template, data_getter[records[i]],
                                           libs[i], fonts_dir),
                       template, records, data_getter, libs, fonts_dir, i, stickers)

\* qr_utils.py:598-604: nothing wraps HTML(...) and write_pdf; the wrapper
\* declares no font
WriteBatchPdf(body, template, engine) ==
    IF body.raised
    THEN [state |-> "raised", exception |-> "render"]
    ELSE IF engine.write = "pdf"
    THEN [state |-> "returned",
          bytes |-> PdfBytes([font_face_rules |-> {},
                              page |-> PageSize(template),
                              stickers |-> body.stickers])]
    ELSE [state |-> "raised", exception |-> "engine"]

\* qr_utils.py:553-604.  The ImportError is raised again (560).
GenerateBatchStickersPdf(template, records, data_getter, libs, fonts_dir, engine) ==
    IF ~engine.imports
    THEN [state |-> "raised", exception |-> "ImportError"]
    ELSE WriteBatchPdf(BatchLoop(template, records, data_getter, libs, fonts_dir, 1, <<>>),
                       template, engine)

\* qr_utils.py:391-551: the template and the data after a single sticker
\* call, which renders once (399 or 407) and reads the template's size
SingleEffect(args) ==
    [args EXCEPT !.template = RenderEffect(args.template, args.data).template,
                 !.data = RenderEffect(args.template, args.data).data]

\* qr_utils.py:593-596: the template after the renders of records i..n
RECURSIVE BatchTemplateEffect(_, _, _, _)
BatchTemplateEffect(template, records, data_getter, i) ==
    IF i > Len(records) THEN template
    ELSE BatchTemplateEffect(RenderEffect(template, data_getter[records[i]]).template,
                             records, data_getter, i + 1)

\* qr_utils.py:553-604: nothing is rendered when the import fails (557-560);
\* the data maps are built by data_getter inside the loop
BatchEffect(args) ==
    IF ~args.engine.imports THEN args
    ELSE [args EXCEPT !.template =
             BatchTemplateEffect(args.template, args.records, args.data_getter, 1)]

\* flask.send_file(data, mimetype=...) / jsonify(...), status / a page or
\* redirect with a flashed message
SendFile(bytes, mimetype) == [status |-> 200, mimetype |-> mimetype, body |-> bytes]
JsonError(status) == [status |-> status, mimetype |-> "application/json",
                      body |-> [kind |-> "error"]]
Page(status, flashed) == [status |-> status, mimetype |-> "text/html",
                          body |-> [kind |-> "page", flashed |-> flashed]]

\* send_file(pdf_data, mimetype='application/pdf', ...) when the generator
\* returned, on_error when it raised
SendPdf(pdf_data, on_error) ==
    IF pdf_data.state = "raised" THEN on_error
    ELSE SendFile(pdf_data.bytes, "application/pdf")

\* routes/qr_template.py:217-231, for an item and a template that exist;
\* data is get_item_data(item)
StickerPrintResponse(template, data, libs, fonts_dir, engine) ==
    SendPdf(GenerateSingleStickerPdf(template, data, libs, fonts_dir, engine),
            JsonError(400))

\* routes/item.py:1061-1088, registered for the same URL: it checks the
\* template type and has no try, so an exception becomes Flask's 500 page
ItemStickerPrintResponse(template, data, libs, fonts_dir, engine) ==
    IF template.template_type # "Items" THEN JsonError(400)
    ELSE SendPdf(GenerateSingleStickerPdf(template, data, libs, fonts_dir, engine),
                 Page(500, ""))

\* routes/qr_template.py:247-263, the POST of the batch print page
BatchPrintResponse(template, items, data_getter, libs, fonts_dir, engine) ==
    IF items = <<>> THEN Page(302, "No items selected")
    ELSE SendPdf(GenerateBatchStickersPdf(template, items, data_getter, libs,
                                          fonts_dir, engine),
                 Page(200, "Error generating PDF"))

(***************************************************************************)
(* Inputs                                                                  *)
(***************************************************************************)
DataChars == {"{", "}", "1", "a"}
DataStrings == StringsOver(DataChars, MaxDataLen)

\* the six symbologies, one name the encoder does not know, and a valid name
\* in the wrong case
RequestedFormats == valid_formats \cup {"ITF", "ean13"}

\* pixel boxes: int(width_mm * MM_TO_PX) of 10 mm and 20 mm
PixelSizes == {37, 75}

BarcodeLib == [imports : BOOLEAN, first : BOOLEAN, retry : BOOLEAN]
QrLib == [imports : BOOLEAN, encode : BOOLEAN, svg_match : BOOLEAN]

BarcodeArgs ==
    [data : {JStr(s) : s \in DataStrings} \cup {JNum(5)},
     format_type : RequestedFormats,
     width : PixelSizes, height : {37},
     show_label : BOOLEAN,
     lib : BarcodeLib]

QrArgs ==
    [data : {JStr(s) : s \in DataStrings},
     width : PixelSizes, height : PixelSizes,
     error_correction : EcLevels \cup {"X"},
     lib : QrLib]

(***************************************************************************)
(* Code generator specification                                            *)
(***************************************************************************)
CodesInit ==
    /\ \/ barcode_args \in BarcodeArgs /\ qr_args = Unused
       \/ qr_args \in QrArgs /\ barcode_args = Unused
    /\ barcode_ret = Pending
    /\ qr_ret = Pending
    /\ resolve_args = Unused /\ resolve_ret = Pending
    /\ render_args = Unused /\ render_ret = Pending
    /\ ComposeIdle /\ StoreIdle /\ PreviewIdle /\ WorkersIdle

CallGenerateBarcodeSvg ==
    /\ barcode_args # Unused
    /\ barcode_ret = Pending
    /\ barcode_ret' = GenerateBarcodeSvg(barcode_args.data, barcode_args.format_type,
                                         barcode_args.width, barcode_args.height,
                                         barcode_args.show_label, barcode_args.lib)
    /\ UNCHANGED <<barcode_args, qr_args, qr_ret, resolve_vars, render_vars,
                   compose_vars, store_vars, preview_vars, workers_vars>>

CallGenerateQrSvg ==
    /\ qr_args # Unused
    /\ qr_ret = Pending
    /\ qr_ret' = GenerateQrSvg(qr_args.data, qr_args.width, qr_args.height,
                               qr_args.error_correction, qr_args.lib)
    /\ UNCHANGED <<barcode_args, barcode_ret, qr_args, resolve_vars, render_vars,
                   compose_vars, store_vars, preview_vars, workers_vars>>

CodesNext == CallGenerateBarcodeSvg \/ CallGenerateQrSvg

SpecCodes == CodesInit /\ [][CodesNext]_vars

(***************************************************************************)
(* Claims about generate_barcode_svg and generate_qr_svg (SpecCodes)       *)
(***************************************************************************)
BarcodeCalled == barcode_args # Unused /\ barcode_ret # Pending
QrCalled == qr_args # Unused /\ qr_ret # Pending

\* the data string of the barcode call starts with '{' and ends with '}'
BarcodeDataBraceWrapped ==
    /\ IsStr(barcode_args.data)
    /\ Len(barcode_args.data.str) >= 1
    /\ Head(barcode_args.data.str) = "{"
    /\ barcode_args.data.str[Len(barcode_args.data.str)] = "}"

\* the data string of the barcode call is a non-empty run of decimal digits
BarcodeDataAllDigits ==
    /\ IsStr(barcode_args.data)
    /\ barcode_args.data.str # <<>>
    /\ \A i \in DOMAIN barcode_args.data.str : barcode_args.data.str[i] \in Digits

\* C1: for every data string that starts with '{' and ends with '}', and for
\* every requested format, the library being importable, a first encoding
\* attempt is made and the format handed to the encoder on it is CODE128.
C1_BraceWrappedFirstAttemptIsCode128 ==
    (BarcodeCalled /\ BarcodeDataBraceWrapped /\ barcode_args.lib.imports)
        => /\ Len(barcode_ret.attempts) >= 1
           /\ barcode_ret.attempts[1].format = "CODE128"
           /\ barcode_ret.attempts[1].data = barcode_args.data.str

C1_Witness ==
    /\ BarcodeCalled /\ BarcodeDataBraceWrapped
    /\ barcode_args.format_type = "CODE39"
    /\ Len(barcode_ret.attempts) >= 1
    /\ barcode_ret.attempts[1].format = "CODE128"

\* C2: when data is not brace-wrapped and the requested format is EAN13, EAN8,
\* UPCA or UPCE, the first encoding attempt uses CODE128 if data is not all
\* digits and the requested format unchanged if data is all digits (a
\* non-empty run of digits); a CODE128 or CODE39 request is never changed
\* by this rule.
C2_NumericOnlyFormatsNeedDigits ==
    (BarcodeCalled /\ IsStr(barcode_args.data) /\ ~BarcodeDataBraceWrapped
        /\ barcode_args.lib.imports)
        => /\ Len(barcode_ret.attempts) >= 1
           /\ (barcode_args.format_type \in {"EAN13", "EAN8", "UPCA", "UPCE"}
                  /\ ~BarcodeDataAllDigits)
                => barcode_ret.attempts[1].format = "CODE128"
           /\ (barcode_args.format_type \in {"EAN13", "EAN8", "UPCA", "UPCE"}
                  /\ BarcodeDataAllDigits)
                => barcode_ret.attempts[1].format = barcode_args.format_type
           /\ barcode_args.format_type \in {"CODE128", "CODE39"}
                => barcode_ret.attempts[1].format = barcode_args.format_type

C2_Witness ==
    /\ BarcodeCalled /\ BarcodeDataAllDigits
    /\ Len(barcode_args.data.str) = MaxDataLen
    /\ barcode_args.format_type = "EAN13"
    /\ Len(barcode_ret.attempts) >= 1
    /\ barcode_ret.attempts[1].format = "EAN13"

\* C3: if the first encoding attempt raises, exactly one further attempt is
\* made and it uses CODE128 (same data, same label option) whatever the first
\* format was; no call makes more than two attempts, and a successful first
\* attempt is never followed by a second.
C3_RetryOnceWithCode128 ==
    BarcodeCalled
        => /\ Len(barcode_ret.attempts) <= 2
           /\ (Len(barcode_ret.attempts) >= 1 /\ ~barcode_args.lib.first)
                => /\ Len(barcode_ret.attempts) = 2
                   /\ barcode_ret.attempts[2].format = "CODE128"
                   /\ barcode_ret.attempts[2].data = barcode_ret.attempts[1].data
                   /\ barcode_ret.attempts[2].label = barcode_ret.attempts[1].label
           /\ (Len(barcode_ret.attempts) >= 1 /\ barcode_args.lib.first)
                => Len(barcode_ret.attempts) = 1

C3_Witness ==
    /\ BarcodeCalled
    /\ Len(barcode_ret.attempts) = 2
    /\ barcode_ret.attempts[1].format = "EAN13"
    /\ barcode_ret.attempts[2].format = "CODE128"
    /\ barcode_ret.state = "returned"
    /\ barcode_ret.fragment.kind = "barcode"

\* C4: when the CODE128 retry also fails, or the barcode / imaging libraries
\* cannot be imported, the call returns the "Barcode Error" placeholder
\* fragment sized width x height and never raises to its caller.
C4_SecondFailureYieldsPlaceholder ==
    BarcodeCalled
        => /\ barcode_ret.state = "returned"
           /\ (~barcode_args.lib.imports
                 \/ (Len(barcode_ret.attempts) = 2 /\ ~barcode_args.lib.retry))
                => /\ barcode_ret.fragment.kind = "placeholder"
                   /\ barcode_ret.fragment.caption = "Barcode Error"
                   /\ barcode_ret.fragment.width = barcode_args.width
                   /\ barcode_ret.fragment.height = barcode_args.height

C4_Witness ==
    /\ BarcodeCalled
    /\ Len(barcode_ret.attempts) = 2
    /\ ~barcode_args.lib.retry
    /\ barcode_ret.state = "returned"
    /\ barcode_ret.fragment.kind = "placeholder"
    /\ barcode_ret.fragment.width = 75

\* C5: on any encoding exception and on zero-length data the call returns
\* the light-grey "QR Error" placeholder fragment sized to the requested
\* width x height instead of propagating an exception.
C5_QrFailureOrEmptyDataYieldsPlaceholder ==
    QrCalled
        => /\ qr_ret.state = "returned"
           /\ (~qr_args.lib.imports \/ ~qr_args.lib.encode \/ qr_args.data = JStr(<<>>))
                => /\ qr_ret.fragment.kind = "placeholder"
                   /\ qr_ret.fragment.caption = "QR Error"
                   /\ qr_ret.fragment.fill = "lightgray"
                   /\ qr_ret.fragment.width = qr_args.width
                   /\ qr_ret.fragment.height = qr_args.height

(***************************************************************************)
(* Resolver specification                                                  *)
(***************************************************************************)
\* Template strings: braces and two token names.  {ItemName} is a token of
\* an item only, {RackName} of an item and of a rack, neither of a location.
TextChars == {"{", "}", "ItemName", "RackName"}
TemplateStrings == StringsOver(TextChars, MaxTextLen)

\* Names are free text typed by a user (forms.py:87: any non-empty string
\* of up to 200 characters)
ItemNames == {<<"x">>, <<"{">>, <<"}">>, Token("RackName"), Token("ItemName")}
RackNames == {<<"r">>, <<"}">>, Token("ItemName")}

Items ==
    [uuid : {<<"a", "1">>}, name : ItemNames, sku : {<<>>}, price : {150},
     quantity : {12}, category : {<<>>}, general_location : {<<>>},
     rack : RackNames \cup {<<>>}, drawer : {<<"2">>}]
Racks == [uuid : {<<"b", "2">>}, name : RackNames, rows : {2}, cols : {3}]
Locations == [uuid : {<<"c", "3">>}, name : {<<"s">>}, info : {<<>>}]

TokenTables ==
    {GetItemData(i) : i \in Items}
        \cup {GetRackData(r, 0) : r \in Racks}
        \cup {GetLocationData(l, 1) : l \in Locations}

ResolveArgs == [text : TemplateStrings, data_dict : TokenTables]

ResolveInit ==
    /\ resolve_args \in ResolveArgs
    /\ resolve_ret = Pending
    /\ barcode_args = Unused /\ barcode_ret = Pending
    /\ qr_args = Unused /\ qr_ret = Pending
    /\ render_args = Unused /\ render_ret = Pending
    /\ ComposeIdle /\ StoreIdle /\ PreviewIdle /\ WorkersIdle

CallReplacePlaceholders ==
    /\ resolve_args # Unused
    /\ resolve_ret = Pending
    /\ resolve_ret' = ReplacePlaceholders(resolve_args.text, resolve_args.data_dict)
    /\ UNCHANGED <<resolve_args, codes_vars, render_vars, compose_vars, store_vars,
                   preview_vars, workers_vars>>

ResolveNext == CallReplacePlaceholders

SpecResolve == ResolveInit /\ [][ResolveNext]_vars

(***************************************************************************)
(* Claims about replace_placeholders (SpecResolve)                         *)
(***************************************************************************)
ResolveCalled == resolve_args # Unused /\ resolve_ret # Pending

Braces == {"{", "}"}
HasBrace(s) == \E i \in DOMAIN s : s[i] \in Braces

ValueOf(data_dict, k) ==
    data_dict[CHOOSE i \in DOMAIN data_dict : data_dict[i].key = k].value

\* One pass over the text from left to right: a '{Token}' whose name is a
\* key is replaced by the key's value, every other character is copied, and
\* the values put in are not looked at again.
RECURSIVE SinglePass(_, _)
SinglePass(t, data_dict) ==
    IF t = <<>> THEN <<>>
    ELSE IF Len(t) >= 3 /\ t[1] = "{" /\ t[3] = "}" /\ t[2] \in Keys(data_dict)
         THEN ValueOf(data_dict, t[2]) \o SinglePass(SubSeq(t, 4, Len(t)), data_dict)
         ELSE <<t[1]>> \o SinglePass(Tail(t), data_dict)

\* every brace of the text belongs to a '{Token}' whose name is a key
RECURSIVE OnlyKnownTokens(_, _)
OnlyKnownTokens(t, keys) ==
    IF t = <<>> THEN TRUE
    ELSE IF t[1] \notin Braces THEN OnlyKnownTokens(Tail(t), keys)
    ELSE /\ Len(t) >= 3 /\ t[1] = "{" /\ t[3] = "}" /\ t[2] \in keys
         /\ OnlyKnownTokens(SubSeq(t, 4, Len(t)), keys)

\* the keys whose token occurs in the text
TokensIn(t, keys) ==
    {k \in keys : \E i \in 1..(Len(t) - 2) : SubSeq(t, i, i + 2) = Token(k)}

\* C8: token resolution is single-pass and non-recursive: text that entered
\* the result as the value of one token is never itself substituted, even
\* when that value contains '{OtherToken}' for another key of the context.
C8_ValuesNeverRescanned ==
    ResolveCalled => ~resolve_ret.rescanned

\* C9: every '{Token}' occurrence whose name is not a key of the context
\* appears in the output unchanged and no error is raised; every occurrence
\* whose name is a key is replaced by that key's string value.
C9_OutputIsSinglePassSubstitution ==
    ResolveCalled
        => /\ resolve_ret.state = "returned"
           /\ resolve_ret.text = SinglePass(resolve_args.text, resolve_args.data_dict)

\* C10 as stated: for every template string whose '{...}' occurrences are all
\* known tokens of the context, the resolved string contains no '{' and no
\* '}', for every entity data the context can be built from.
C10_KnownTokensLeaveNoBraces ==
    (ResolveCalled /\ OnlyKnownTokens(resolve_args.text, Keys(resolve_args.data_dict)))
        => ~HasBrace(resolve_ret.text)

\* C10 as amended: for every template string whose braces all belong to
\* known tokens of the context, and every context in which the values of the
\* tokens the template uses contain no '{' and no '}', the resolved string
\* contains no '{' and no '}'.
C10_KnownTokensBraceFreeValuesLeaveNoBraces ==
    (/\ ResolveCalled
     /\ OnlyKnownTokens(resolve_args.text, Keys(resolve_args.data_dict))
     /\ \A k \in TokensIn(resolve_args.text, Keys(resolve_args.data_dict)) :
            ~HasBrace(ValueOf(resolve_args.data_dict, k)))
        => ~HasBrace(resolve_ret.text)

C10_Witness ==
    /\ ResolveCalled
    /\ OnlyKnownTokens(resolve_args.text, Keys(resolve_args.data_dict))
    /\ TokensIn(resolve_args.text, Keys(resolve_args.data_dict)) = {"ItemName", "RackName"}
    /\ \A k \in {"ItemName", "RackName"} : ~HasBrace(ValueOf(resolve_args.data_dict, k))
    /\ resolve_ret.text = <<"x", "r">>

(***************************************************************************)
(* Renderer specification                                                  *)
(***************************************************************************)
Drop(element, f) == [g \in DOMAIN element \ {f} |-> element[g]]

\* Elements as the canvas editor saves them
CenteredText ==
    [type |-> "text", x_mm |-> JNum(1), y_mm |-> JNum(0), width_mm |-> JNum(20),
     height_mm |-> JNum(5), content |-> JStr(Token("ItemName")), font_family |-> "Roboto",
     font_size_mm |-> JNum(4), color |-> <<"#000000">>, text_align |-> "center"]
PlainText ==
    [type |-> "text", x_mm |-> JNum(2), y_mm |-> JNum(15),
     content |-> JStr(<<"<", "&">> \o Token("SKU"))]
QrCode ==
    [type |-> "qr", x_mm |-> JNum(5), y_mm |-> JNum(2), width_mm |-> JNum(12),
     height_mm |-> JNum(12), source_field |-> JStr(Token("ItemUUID")),
     error_correction |-> "H"]
QrCodeLow == [QrCode EXCEPT !.error_correction = "L"]
Barcode ==
    [type |-> "barcode", x_mm |-> JNum(3), y_mm |-> JNum(12), width_mm |-> JNum(20),
     height_mm |-> JNum(8), source_field |-> JStr(Token("SKU")), format |-> "EAN13",
     show_label |-> FALSE]

GoodElements ==
    {CenteredText, PlainText, QrCode, QrCodeLow, Barcode,
     Drop(Drop(QrCode, "width_mm"), "height_mm")}

\* Elements a layout posted to the template API may hold as well: the
\* layout is stored as it is posted
BadElements ==
    {Drop(CenteredText, "x_mm"),
     Drop(QrCode, "source_field"),
     Drop(PlainText, "type"),
     [PlainText EXCEPT !.type = "image"],
     [Barcode EXCEPT !.width_mm = JStr(<<"a">>)],
     [CenteredText EXCEPT !.content = JNum(5)]}

Layouts == UNION {[1..n -> GoodElements \cup BadElements] : n \in 0..MaxElements}

IsCodeElement(element) == Has(element, "type") /\ element.type \in {"qr", "barcode"}

\* The library outcomes met at each element.  The imports succeed or fail
\* for the whole process; only a QR or barcode element meets the encoder,
\* and only a barcode element a retry.
LibsFor(layout, imports) ==
    {libs \in [DOMAIN layout -> [imports : {imports}, first : BOOLEAN,
                                 retry : BOOLEAN, svg_match : {TRUE}]] :
        \A i \in DOMAIN layout :
            /\ ~IsCodeElement(layout[i]) => libs[i].first /\ libs[i].retry
            /\ (IsCodeElement(layout[i]) /\ layout[i].type = "qr") => libs[i].retry}

RenderItem ==
    [uuid |-> <<"a", "1">>, name |-> <<"x", ">">>, sku |-> <<"1", "2">>, price |-> 150,
     quantity |-> 12, category |-> <<>>, general_location |-> <<>>, rack |-> <<>>,
     drawer |-> <<>>]

\* the token table of an item, and the empty one the preview route passes
\* for a template type it has no sample for (routes/qr_template.py:189)
RenderData == {GetItemData(RenderItem), <<>>}

RenderFontsDir ==
    [files |-> {FontFile("Roboto", "-Regular", ".ttf"), FontFile("Roboto", "", ".otf")},
     unreadable |-> {}]

RenderTemplate(layout) ==
    [id |-> 1, name |-> "label", template_type |-> "Items",
     width_mm |-> 30, height_mm |-> 20, layout |-> layout]

RenderInit ==
    /\ \E layout \in Layouts, imports \in BOOLEAN, data \in RenderData :
         \E libs \in LibsFor(layout, imports) :
            render_args = [template |-> RenderTemplate(layout), data |-> data,
                           libs |-> libs, fonts_dir |-> RenderFontsDir]
    /\ render_ret = Pending
    /\ barcode_args = Unused /\ barcode_ret = Pending
    /\ qr_args = Unused /\ qr_ret = Pending
    /\ resolve_args = Unused /\ resolve_ret = Pending
    /\ ComposeIdle /\ StoreIdle /\ PreviewIdle /\ WorkersIdle

CallRenderTemplateToSvg ==
    /\ render_args # Unused
    /\ render_ret = Pending
    /\ render_ret' = RenderTemplateToSvg(render_args.template, render_args.data,
                                         render_args.libs, render_args.fonts_dir)
    /\ render_args' =
          [render_args EXCEPT
              !.template = RenderEffect(render_args.template, render_args.data).template,
              !.data = RenderEffect(render_args.template, render_args.data).data]
    /\ UNCHANGED <<codes_vars, resolve_vars, compose_vars, store_vars,
                   preview_vars, workers_vars>>

RenderNext == CallRenderTemplateToSvg

SpecRender == RenderInit /\ [][RenderNext]_vars

(***************************************************************************)
(* Claims about render_template_to_svg (SpecRender)                        *)
(***************************************************************************)
RenderCalled == render_args # Unused /\ render_ret # Pending

RenderLayout == render_args.template.layout

\* an element as the data model describes it: a known type, numeric
\* geometry, string content / source
WellFormed(element) ==
    /\ Has(element, "type") /\ element.type \in {"text", "qr", "barcode"}
    /\ Has(element, "x_mm") /\ IsNum(element.x_mm)
    /\ Has(element, "y_mm") /\ IsNum(element.y_mm)
    /\ \A f \in {"width_mm", "height_mm", "font_size_mm"} : Has(element, f) => IsNum(element[f])
    /\ Has(element, "content") => IsStr(element.content)
    /\ element.type \in {"qr", "barcode"}
          => Has(element, "source_field") /\ IsStr(element.source_field)

IsErrorNode(node) ==
    \/ node.kind = "g" /\ node.fragment.kind = "placeholder"
    \/ node.kind = "caption" /\ node.caption \in {"QR Error", "Barcode Error"}

\* C6: for every layout and every element in it that raises during
\* processing (missing x_mm / y_mm, missing source_field, missing or unknown
\* type, non-numeric geometry, non-string content), the exception is caught
\* for that element only, a placeholder is emitted in its place, all
\* remaining elements are still rendered and the call returns a closed
\* document.
C6_BadElementNeverAbortsRendering ==
    RenderCalled
        => /\ render_ret.state = "returned"
           /\ render_ret.closed
           /\ Len(render_ret.groups) = Len(RenderLayout)
           /\ \A i \in DOMAIN RenderLayout :
                 IF WellFormed(RenderLayout[i])
                 THEN render_ret.groups[i] # <<>>
                 ELSE \E n \in DOMAIN render_ret.groups[i] :
                          IsErrorNode(render_ret.groups[i][n])

\* the codec rejected the data of element i: the QR encoder raised, or both
\* barcode attempts did, or the codec library could not be imported
CodecRejected(i) ==
    /\ IsCodeElement(RenderLayout[i])
    /\ \/ ~render_args.libs[i].imports
       \/ RenderLayout[i].type = "qr" /\ ~render_args.libs[i].first
       \/ RenderLayout[i].type = "barcode"
             /\ ~render_args.libs[i].first /\ ~render_args.libs[i].retry

\* C7: when the codec rejects a QR or barcode element's data in a layout of
\* well-formed elements, no exception reaches the caller, the returned
\* document holds the nodes of every element in layout order, and in place
\* of each rejected element exactly one error fragment ("QR Error" /
\* "Barcode Error") inside a group translated to (x_mm*K, y_mm*K) and sized
\* to the element's box in whole pixels, int(width_mm*K) x int(height_mm*K);
\* no other element gets an error fragment.
C7_RejectedCodeElementGetsErrorFragmentInPlace ==
    (RenderCalled /\ \A i \in DOMAIN RenderLayout : WellFormed(RenderLayout[i]))
        => /\ render_ret.state = "returned"
           /\ render_ret.closed
           /\ Len(render_ret.groups) = Len(RenderLayout)
           /\ \A i \in DOMAIN RenderLayout :
                 LET element == RenderLayout[i]
                     nodes == render_ret.groups[i]
                 IN  /\ Len(nodes) = 1
                     /\ IsErrorNode(nodes[1]) <=> CodecRejected(i)
                     /\ element.type = "text" => nodes[1].kind = "text"
                     /\ element.type \in {"qr", "barcode"}
                          => /\ nodes[1].kind = "g"
                             /\ nodes[1].tx = element.x_mm.num * 378
                             /\ nodes[1].ty = element.y_mm.num * 378
                     /\ CodecRejected(i)
                          => /\ nodes[1].fragment.caption =
                                    (IF element.type = "qr" THEN "QR Error" ELSE "Barcode Error")
                             /\ nodes[1].fragment.width =
                                    (Get(element, "width_mm", JNum(10)).num * 378) \div 100
                             /\ nodes[1].fragment.height =
                                    (Get(element, "height_mm", JNum(10)).num * 378) \div 100

C7_Witness ==
    /\ RenderCalled
    /\ RenderLayout = <<CenteredText, QrCode, Barcode>>
    /\ CodecRejected(2) /\ ~CodecRejected(3)
    /\ render_ret.state = "returned"
    /\ render_ret.groups[1][1].kind = "text"
    /\ render_ret.groups[2][1].fragment.caption = "QR Error"
    /\ render_ret.groups[2][1].tx = 1890
    /\ render_ret.groups[2][1].fragment.width = 45
    /\ render_ret.groups[3][1].fragment.kind = "barcode"

(***************************************************************************)
(* Print compositor specification                                          *)
(***************************************************************************)
MaxRecords == 2          \* longest list of records handed to a batch print

\* Items with pairwise different field values
ComposeItem(c, d) ==
    [uuid |-> <<"u", c>>, name |-> <<c>>, sku |-> <<d>>, price |-> 150,
     quantity |-> 12, category |-> <<>>, general_location |-> <<>>, rack |-> <<>>,
     drawer |-> <<>>]
ComposeItems == {ComposeItem("x", "1"), ComposeItem("y", "2"), ComposeItem("z", "3")}

\* A text element in a given font, as the editor's font list offers them
\* (routes/settings.py:88-118) plus the 'default' the renderer also knows
TextIn(font_family) == [CenteredText EXCEPT !.font_family = font_family]

ComposeLayouts ==
    {<<CenteredText>>, <<TextIn("Arial"), QrCode>>, <<TextIn("default"), Barcode>>,
     <<PlainText, TextIn("OpenDyslexic")>>, <<Drop(CenteredText, "x_mm")>>, <<>>}

\* Files static/fonts may hold
FontPool ==
    {FontFile("Roboto", "", ".woff2"), FontFile("Roboto", "-Regular", ".ttf"),
     FontFile("Arial", "", ".ttf"),
     FontFile("default", "", ".otf"),
     FontFile("OpenDyslexic", "-Regular", ".woff2"),
     FontFile("OpenDyslexic", "-Regular", ".ttf")}

FontsDirs ==
    {[files |-> fs, unreadable |-> us] :
        fs \in SUBSET FontPool,
        us \in {{}, {FontFile("Roboto", "", ".woff2")}}}

ComposeTemplate(template_type, layout) ==
    [id |-> 1, name |-> "label", template_type |-> template_type,
     width_mm |-> 30, height_mm |-> 20, layout |-> layout]

\* The outcomes that differ: write_pdf is only reached after the import
Engines == {e \in EngineOutcomes : ~e.imports => e.write = "pdf"}

SingleInit ==
    /\ \E layout \in ComposeLayouts, item \in {ComposeItem("x", "1")},
          fonts_dir \in FontsDirs, engine \in Engines, template_type \in {"Items", "Racks"} :
         \E libs \in LibsFor(layout, TRUE) :
            single_args = [template |-> ComposeTemplate(template_type, layout),
                           item |-> item, data |-> GetItemData(item), libs |-> libs,
                           fonts_dir |-> fonts_dir, engine |-> engine]
    /\ batch_args = Unused

BatchInit ==
    /\ \E layout \in ComposeLayouts, n \in 0..MaxRecords, engine \in Engines,
          fonts_dir \in {RenderFontsDir, [files |-> {}, unreadable |-> {}]} :
         \E records \in [1..n -> ComposeItems], libs \in [1..n -> LibsFor(layout, TRUE)] :
            batch_args = [template |-> ComposeTemplate("Items", layout),
                          records |-> records,
                          data_getter |-> [r \in ComposeItems |-> GetItemData(r)],
                          libs |-> libs, fonts_dir |-> fonts_dir, engine |-> engine]
    /\ single_args = Unused

ComposeInit ==
    /\ SingleInit \/ BatchInit
    /\ single_ret = Pending /\ batch_ret = Pending /\ response = Pending
    /\ CodesIdle /\ ResolveIdle /\ RenderIdle /\ StoreIdle /\ PreviewIdle /\ WorkersIdle

CallGenerateSingleStickerPdf ==
    /\ single_args # Unused
    /\ single_ret = Pending
    /\ single_ret' = GenerateSingleStickerPdf(single_args.template, single_args.data,
                        single_args.libs, single_args.fonts_dir, single_args.engine)
    /\ single_args' = SingleEffect(single_args)
    /\ UNCHANGED <<batch_args, batch_ret, response, codes_vars,
                   resolve_vars, render_vars, store_vars, preview_vars, workers_vars>>

CallGenerateBatchStickersPdf ==
    /\ batch_args # Unused
    /\ batch_ret = Pending
    /\ batch_ret' = GenerateBatchStickersPdf(batch_args.template, batch_args.records,
                        batch_args.data_getter, batch_args.libs, batch_args.fonts_dir, batch_args.engine)
    /\ batch_args' = BatchEffect(batch_args)
    /\ UNCHANGED <<single_args, single_ret, response, codes_vars,
                   resolve_vars, render_vars, store_vars, preview_vars, workers_vars>>

\* GET /api/item/<uuid>/sticker-print/<template_id>, routes/qr_template.py
ApiItemStickerPrint ==
    /\ single_args # Unused
    /\ response = Pending
    /\ response' = [route |-> "qr_template.api_item_sticker_print"] @@
                   StickerPrintResponse(single_args.template, single_args.data,
                        single_args.libs, single_args.fonts_dir, single_args.engine)
    /\ single_args' = SingleEffect(single_args)
    /\ UNCHANGED <<single_ret, batch_args, batch_ret, codes_vars,
                   resolve_vars, render_vars, store_vars, preview_vars, workers_vars>>

\* the same URL, routes/item.py
ItemApiItemStickerPrint ==
    /\ single_args # Unused
    /\ response = Pending
    /\ response' = [route |-> "item.api_item_sticker_print"] @@
                   ItemStickerPrintResponse(single_args.template, single_args.data,
                        single_args.libs, single_args.fonts_dir, single_args.engine)
    /\ single_args' = SingleEffect(single_args)
    /\ UNCHANGED <<single_ret, batch_args, batch_ret, codes_vars,
                   resolve_vars, render_vars, store_vars, preview_vars, workers_vars>>

\* POST /qr-template/<template_id>/print
PrintQrTemplate ==
    /\ batch_args # Unused
    /\ response = Pending
    /\ response' = [route |-> "qr_template.print_qr_template"] @@
                   BatchPrintResponse(batch_args.template, batch_args.records,
                        batch_args.data_getter, batch_args.libs, batch_args.fonts_dir, batch_args.engine)
    /\ batch_args' = BatchEffect(batch_args)
    /\ UNCHANGED <<single_args, single_ret, batch_ret, codes_vars,
                   resolve_vars, render_vars, store_vars, preview_vars, workers_vars>>

ComposeNext ==
    \/ CallGenerateSingleStickerPdf
    \/ CallGenerateBatchStickersPdf
    \/ ApiItemStickerPrint
    \/ ItemApiItemStickerPrint
    \/ PrintQrTemplate

SpecCompose == ComposeInit /\ [][ComposeNext]_vars

(***************************************************************************)
(* Claims about the print compositor (SpecCompose)                         *)
(***************************************************************************)
SingleCalled == single_args # Unused /\ single_ret # Pending
BatchCalled  == batch_args # Unused /\ batch_ret # Pending

\* The vector document of the call's template and data
SingleSvg ==
    RenderTemplateToSvg(single_args.template, single_args.data,
                        single_args.libs, single_args.fonts_dir)

EngineFails(engine) == ~engine.imports \/ engine.write # "pdf"

\* C11: when a single sticker print has a vector document to fall back to
\* (the template renders), generate_single_sticker_pdf never raises: with
\* an engine that cannot be imported, or that raises or times out inside
\* write_pdf, it returns the bytes of the vector document of the same
\* template and data, and with an engine that succeeds it returns the PDF
\* composed from that document.
C11_EngineFailureFallsBackToSvg ==
    (SingleCalled /\ SingleSvg.state = "returned") =>
        /\ single_ret.state = "returned"
        /\ EngineFails(single_args.engine) => single_ret.bytes = SvgBytes(SingleSvg)
        /\ ~EngineFails(single_args.engine) =>
              /\ single_ret.bytes.kind = "pdf"
              /\ single_ret.bytes.html.stickers = <<Sticker(SingleSvg, "avoid")>>
              /\ single_ret.bytes.html.page = PageSize(single_args.template)

C11_Witness ==
    /\ SingleCalled
    /\ single_args.engine.imports /\ single_args.engine.write = "timeout"
    /\ single_args.template.layout # <<>>
    /\ single_ret.state = "returned" /\ single_ret.bytes.kind = "svg"

\* Whether every record of the batch has a vector document
RECURSIVE BatchSvgs(_)
BatchSvgs(i) ==
    IF i > Len(batch_args.records) THEN <<>>
    ELSE <<RenderTemplateToSvg(batch_args.template, GetItemData(batch_args.records[i]),
                               batch_args.libs[i], batch_args.fonts_dir)>>
         \o BatchSvgs(i + 1)

BatchRenders == \A i \in DOMAIN BatchSvgs(1) : BatchSvgs(1)[i].state = "returned"

\* C12: a batch print whose records all render never raises: when the PDF
\* engine cannot be imported or raises inside write_pdf,
\* generate_batch_stickers_pdf returns the vector documents it rendered
\* before the composition.
C12_BatchCompositionFailureRecovered ==
    (BatchCalled /\ BatchRenders /\ EngineFails(batch_args.engine)) =>
        /\ batch_ret.state = "returned"
        /\ batch_ret.bytes.kind = "svg"

\* The print routes that answer with a file
PrintRoutes == {"qr_template.api_item_sticker_print", "item.api_item_sticker_print"}

\* C13: the content type of a sticker print response names the payload it
\* carries: application/pdf exactly when the body is a composed PDF, and an
\* SVG type when the body is the vector document of the fallback.
C13_ContentTypeIdentifiesPayload ==
    (response # Pending /\ response.route \in PrintRoutes /\ response.status = 200) =>
        /\ response.mimetype = "application/pdf" <=> response.body.kind = "pdf"
        /\ response.body.kind = "svg" => response.mimetype = "image/svg+xml"

\* The symbols a page shows: the characters of its texts and the payloads
\* of its QR codes
PageSymbols(svg) ==
    UNION {UNION {IF node.kind = "text" THEN Range(node.content)
                  ELSE IF node.kind = "g" /\ node.fragment.kind = "qr"
                       THEN Range(node.fragment.data.str)
                  ELSE {} : node \in Range(svg.groups[g])} : g \in DOMAIN svg.groups}

\* The symbols only this record's fields hold
OwnSymbols(record) == Range(record.name) \cup Range(record.sku)

\* C14: the document a batch print of N records composes holds exactly N
\* stickers, sticker i being the rendering of the template with the data of
\* record i, each followed by a forced page break; no value of a different
\* record appears on page i.
C14_OnePagePerRecordInOrder ==
    (BatchCalled /\ batch_ret.state = "returned" /\ batch_ret.bytes.kind = "pdf") =>
        LET stickers == batch_ret.bytes.html.stickers
            records == batch_args.records
        IN  /\ Len(stickers) = Len(records)
            /\ \A i \in DOMAIN stickers :
                 /\ stickers[i].page_break_after = "always"
                 /\ stickers[i].svg = BatchSvgs(1)[i]
                 /\ batch_args.template.layout # <<>> =>
                        OwnSymbols(records[i]) \cap PageSymbols(stickers[i].svg) # {}
                 /\ \A j \in DOMAIN records :
                        records[j] # records[i] =>
                            OwnSymbols(records[j]) \cap PageSymbols(stickers[i].svg) = {}

C14_Witness ==
    /\ BatchCalled
    /\ Len(batch_args.records) = MaxRecords
    /\ batch_args.records[1] # batch_args.records[2]
    /\ batch_args.template.layout = <<TextIn("Arial"), QrCode>>
    /\ batch_ret.state = "returned"
    /\ Len(batch_ret.bytes.html.stickers) = MaxRecords

(***************************************************************************)
(* Template store (routes/qr_template.py)                                  *)
(***************************************************************************)
\* routes/qr_template.py:52, 56, 118, 121: the size limits in millimetres
MinSizeMm == 5
MaxSizeMm == 500

\* The values a float can take, sizes being whole millimetres here, and the
\* NULL of a database column
Num(n) == [kind |-> "num", v |-> n]
NaN    == [kind |-> "nan"]
Inf    == [kind |-> "inf"]
Null   == [kind |-> "null"]

RECURSIVE StrToInt(_)
StrToInt(s) ==
    IF s = <<>> THEN 0
    ELSE 10 * StrToInt(SubSeq(s, 1, Len(s) - 1))
         + (CHOOSE d \in 0..9 : DigitChar(d) = s[Len(s)])

\* float(text): a run of digits is its number, 'nan' and 'inf' are the two
\* special floats, and any other text of the ones submitted here raises
\* ValueError
ParseFloat(s) ==
    IF IsDigit(s) THEN [raised |-> "", value |-> Num(StrToInt(s))]
    ELSE IF s = <<"n", "a", "n">> THEN [raised |-> "", value |-> NaN]
    ELSE IF s = <<"i", "n", "f">> THEN [raised |-> "", value |-> Inf]
    ELSE [raised |-> "ValueError"]

\* float(v) of a submitted or stored value: a number (JSON number, default,
\* stored float), a text, or None (JSON null, a NULL column)
Float(v) ==
    IF v.kind = "text" THEN ParseFloat(v.s)
    ELSE IF v.kind = "null" THEN [raised |-> "TypeError"]
    ELSE [raised |-> "", value |-> v]

Text(s) == [kind |-> "text", s |-> s]

\* x < 5 or x > 500 (routes/qr_template.py:52, 56, 118, 121): every
\* comparison with NaN is false
OutOfRange(x) ==
    CASE x.kind = "num" -> x.v < MinSizeMm \/ x.v > MaxSizeMm
      [] x.kind = "inf" -> TRUE
      [] x.kind = "nan" -> FALSE

\* What db.session.commit() does with a float column: a finite value is
\* stored; for NaN it depends on the database and on the column (the
\* StickerTemplate model is not in src/): kept as NaN, stored as NULL, or
\* refused with an IntegrityError.  nan_as is that outcome.
Stored(x, nan_as) == IF x.kind = "nan" /\ nan_as = "null" THEN Null ELSE x
CommitRefuses(width_mm, height_mm, nan_as) ==
    nan_as = "error" /\ (width_mm.kind = "nan" \/ height_mm.kind = "nan")

\* StickerTemplate.set_layout / get_layout: the layout is kept as posted
SetLayout(row, layout) == [row EXCEPT !.layout = layout]

Reply(route, status) == [route |-> route, status |-> status]

\* max(id) + 1 of the rows of the table
NextTemplateId(table) ==
    IF DOMAIN table = {} THEN 1
    ELSE (CHOOSE m \in DOMAIN table : \A k \in DOMAIN table : k <= m) + 1

\* routes/qr_template.py:40-79, the POST of the form.  Returns the table
\* and the reply; 302 to the editor on success, 302 back to the form with a
\* flashed error otherwise.
CreateChecked(table, template_type, name, width_mm, height_mm, nan_as) ==
    IF width_mm.raised # "" \/ height_mm.raised # ""
    THEN [table |-> table, reply |-> Reply("create_qr_template", "invalid")]
    ELSE IF template_type = "" \/ name = ""
    THEN [table |-> table, reply |-> Reply("create_qr_template", "required")]
    ELSE IF OutOfRange(width_mm.value) \/ OutOfRange(height_mm.value)
    THEN [table |-> table, reply |-> Reply("create_qr_template", "out of range")]
    ELSE IF CommitRefuses(width_mm.value, height_mm.value, nan_as)
    THEN [table |-> table, reply |-> Reply("create_qr_template", "error")]
    ELSE [table |-> (NextTemplateId(table) :>
                        [name |-> name, template_type |-> template_type,
                         width_mm |-> Stored(width_mm.value, nan_as),
                         height_mm |-> Stored(height_mm.value, nan_as),
                         layout |-> <<>>]) @@ table,
          reply |-> Reply("create_qr_template", "created")]

CreateTemplate(table, form, nan_as) ==
    CreateChecked(table, form.template_type, form.name,
                  Float(Get(form, "width_mm", Num(30))),
                  Float(Get(form, "height_mm", Num(20))), nan_as)

\* The end of a request.  db is a Flask-SQLAlchemy object (models.py:9): the
\* session of the request is removed when its application context is torn
\* down, so what was committed stays and what was only assigned to a row is
\* dropped.
MutRequestEndFlushes(persisted, session, committed) == session

RequestEnd(persisted, session, committed) ==
    IF committed THEN session ELSE persisted

\* routes/qr_template.py:111-140, the PUT of the template API, from the
\* two parsed sizes on.  name, width_mm and height_mm are assigned to the
\* row (124-126) before the layout is read and applied (127);
\* layout_raises says whether get_layout / set_layout raise there.
UpdateChecked(table, template_id, data, new_width, new_height, nan_as, layout_raises) ==
    IF new_width.raised = "ValueError" \/ new_height.raised = "ValueError"
    THEN [table |-> table, reply |-> Reply("api_qr_template PUT", "invalid")]
    ELSE IF new_width.raised # "" \/ new_height.raised # ""
    THEN [table |-> table, reply |-> Reply("api_qr_template PUT", "error")]
    ELSE IF OutOfRange(new_width.value) \/ OutOfRange(new_height.value)
    THEN [table |-> table, reply |-> Reply("api_qr_template PUT", "out of range")]
    ELSE LET assigned == [table EXCEPT ![template_id] =
                             [@ EXCEPT !.name = Get(data, "name", @),
                                       !.width_mm = Stored(new_width.value, nan_as),
                                       !.height_mm = Stored(new_height.value, nan_as)]]
             applied == [assigned EXCEPT ![template_id] =
                            SetLayout(@, Get(data, "layout", table[template_id].layout))]
         IN  IF layout_raises
             THEN [table |-> RequestEnd(table, assigned, FALSE),
                   reply |-> Reply("api_qr_template PUT", "layout error")]
             ELSE IF CommitRefuses(new_width.value, new_height.value, nan_as)
             THEN [table |-> RequestEnd(table, applied, FALSE),
                   reply |-> Reply("api_qr_template PUT", "error")]
             ELSE [table |-> RequestEnd(table, applied, TRUE),
                   reply |-> Reply("api_qr_template PUT", "success")]

\* routes/qr_template.py:97, 111-140.  A body that is no JSON object has no
\* .get: the AttributeError is answered with 400.
UpdateTemplate(table, template_id, data, nan_as, layout_raises) ==
    IF template_id \notin DOMAIN table
    THEN [table |-> table, reply |-> Reply("api_qr_template PUT", "404")]
    ELSE IF data = Null
    THEN [table |-> table, reply |-> Reply("api_qr_template PUT", "error")]
    ELSE UpdateChecked(table, template_id, data,
                       Float(Get(data, "width_mm", table[template_id].width_mm)),
                       Float(Get(data, "height_mm", table[template_id].height_mm)),
                       nan_as, layout_raises)

\* routes/qr_template.py:97-109, the POST of the template API
SaveLayout(table, template_id, data) ==
    IF template_id \notin DOMAIN table
    THEN [table |-> table, reply |-> Reply("api_qr_template POST", "404")]
    ELSE IF data = Null
    THEN [table |-> table, reply |-> Reply("api_qr_template POST", "error")]
    ELSE [table |-> [table EXCEPT ![template_id] = SetLayout(@, Get(data, "layout", <<>>))],
          reply |-> Reply("api_qr_template POST", "success")]

\* routes/qr_template.py:306-325
DeleteTemplate(table, template_id) ==
    IF template_id \notin DOMAIN table
    THEN [table |-> table, reply |-> Reply("delete_qr_template", "404")]
    ELSE [table |-> [k \in DOMAIN table \ {template_id} |-> table[k]],
          reply |-> Reply("delete_qr_template", "deleted")]

\* qr_utils.py:10-21
AVAILABLE_PLACEHOLDERS ==
    [Items |-> <<"ItemUUID", "ItemName", "SKU", "Price", "Quantity", "Category",
                 "LocationName", "RackName", "Drawer">>,
     Location |-> <<"LocationUUID", "LocationName", "LocationInfo", "ItemCount">>,
     Racks |-> <<"RackUUID", "RackName", "Capacity", "ItemCount">>]

\* AVAILABLE_PLACEHOLDERS.get(template_type, [])
PlaceholdersOf(template_type) ==
    IF template_type \in DOMAIN AVAILABLE_PLACEHOLDERS
    THEN AVAILABLE_PLACEHOLDERS[template_type] ELSE <<>>

\* routes/qr_template.py:83-90 (the editor page) and 97, 142-152 (the GET of
\* the template API): both offer the placeholders of the template's type
OfferPlaceholders(table, template_id, route) ==
    IF template_id \notin DOMAIN table
    THEN Reply(route, "404")
    ELSE [route |-> route, status |-> "ok", type |-> table[template_id].template_type,
          placeholders |-> PlaceholdersOf(table[template_id].template_type)]

(***************************************************************************)
(* Template store specification                                            *)
(***************************************************************************)
\* The template ids the requests name (<int:template_id> of the URLs)
TemplateIds == {1, 2}

\* Sizes as a form or a JSON body may carry them
SizeTexts == {Text(<<"4">>), Text(<<"5">>), Text(<<"5", "0", "1">>), Text(<<"a">>),
              Text(<<"n", "a", "n">>), Text(<<"i", "n", "f">>)}
JsonSizes == {Num(4), Num(500), Num(501), NaN, Null, Text(<<"a">>)}
JsonHeights == {Num(20), Num(501)}

\* A record with some of its fields left out
Partial(record, fields) == [f \in fields |-> record[f]]

Forms ==
    {Partial([template_type |-> t, name |-> n, width_mm |-> w, height_mm |-> h], fields) :
        t \in {"Items", ""}, n \in {"a", ""}, w \in SizeTexts,
        h \in {Text(<<"2", "0">>), Text(<<"5", "0", "1">>)},
        fields \in {{"template_type", "name", "width_mm", "height_mm"},
                    {"template_type", "name", "height_mm"},
                    {"template_type", "name"}}}

PutBodies ==
    {Partial([name |-> "b", width_mm |-> w, height_mm |-> h, layout |-> <<QrCode>>], fields) :
        w \in JsonSizes, h \in JsonHeights,
        fields \in {{"name", "width_mm", "height_mm", "layout"}, {"width_mm"},
                    {"height_mm"}}}
    \cup {Null}

OffCanvasText == [PlainText EXCEPT !.x_mm = JNum(-2)]
PostBodies == {[layout |-> <<QrCode>>], [layout |-> <<OffCanvasText>>], <<>>, Null}

NanOutcomes == {"nan", "null", "error"}

StoreInit ==
    /\ templates = <<>>
    /\ store_reply = Pending
    /\ CodesIdle /\ ResolveIdle /\ RenderIdle /\ ComposeIdle /\ PreviewIdle /\ WorkersIdle

\* Each handler changes the table and answers in one step
CreateQrTemplate ==
    /\ NextTemplateId(templates) \in TemplateIds
    /\ \E form \in Forms, nan_as \in NanOutcomes :
          LET result == CreateTemplate(templates, form, nan_as)
          IN  templates' = result.table /\ store_reply' = result.reply
    /\ UNCHANGED <<codes_vars, resolve_vars, render_vars, compose_vars, preview_vars, workers_vars>>

ApiQrTemplatePost ==
    \E template_id \in TemplateIds, data \in PostBodies :
        LET result == SaveLayout(templates, template_id, data)
        IN  /\ templates' = result.table
            /\ store_reply' = result.reply
            /\ UNCHANGED <<codes_vars, resolve_vars, render_vars, compose_vars,
                           preview_vars, workers_vars>>

ApiQrTemplatePut ==
    \E template_id \in TemplateIds, data \in PutBodies, nan_as \in NanOutcomes,
       layout_raises \in BOOLEAN :
        LET result == UpdateTemplate(templates, template_id, data, nan_as, layout_raises)
        IN  /\ templates' = result.table
            /\ store_reply' = result.reply
            /\ UNCHANGED <<codes_vars, resolve_vars, render_vars, compose_vars,
                           preview_vars, workers_vars>>

DeleteQrTemplate ==
    \E template_id \in TemplateIds :
        LET result == DeleteTemplate(templates, template_id)
        IN  /\ templates' = result.table
            /\ store_reply' = result.reply
            /\ UNCHANGED <<codes_vars, resolve_vars, render_vars, compose_vars,
                           preview_vars, workers_vars>>

StoreNext ==
    \/ CreateQrTemplate
    \/ ApiQrTemplatePost
    \/ ApiQrTemplatePut
    \/ DeleteQrTemplate

SpecStore == StoreInit /\ [][StoreNext]_vars

(***************************************************************************)
(* Template type specification: templates of every type a form may carry   *)
(* are created, opened in the editor and read through the API              *)
(***************************************************************************)
\* The <select> of the form offers Items, Locations and Racks; the handler
\* takes the field as it is posted
TypeForms ==
    [template_type : {"Items", "Locations", "Racks", "Shelves", ""}, name : {"a", ""}]

CreateQrTemplateOfType ==
    /\ NextTemplateId(templates) \in TemplateIds
    /\ \E form \in TypeForms :
          LET result == CreateTemplate(templates, form, "nan")
          IN  templates' = result.table /\ store_reply' = result.reply
    /\ UNCHANGED <<codes_vars, resolve_vars, render_vars, compose_vars, preview_vars,
                   workers_vars>>

EditQrTemplate ==
    \E template_id \in TemplateIds :
        /\ store_reply' = OfferPlaceholders(templates, template_id, "edit_qr_template")
        /\ UNCHANGED <<templates, codes_vars, resolve_vars, render_vars, compose_vars,
                       preview_vars, workers_vars>>

ApiQrTemplateGet ==
    \E template_id \in TemplateIds :
        /\ store_reply' = OfferPlaceholders(templates, template_id, "api_qr_template GET")
        /\ UNCHANGED <<templates, codes_vars, resolve_vars, render_vars, compose_vars,
                       preview_vars, workers_vars>>

TypesNext ==
    \/ CreateQrTemplateOfType
    \/ EditQrTemplate
    \/ ApiQrTemplateGet
    \/ DeleteQrTemplate

SpecTypes == StoreInit /\ [][TypesNext]_vars

(***************************************************************************)
(* Claims about the template store (SpecStore)                             *)
(***************************************************************************)
InRange(x) == x.kind = "num" /\ MinSizeMm <= x.v /\ x.v <= MaxSizeMm

\* C15: after any sequence of create, POST, PUT and delete requests, every
\* stored template has 5 <= width_mm <= 500 and 5 <= height_mm <= 500, so
\* no other size reaches the renderer, which reads its templates from the
\* store.
C15_StoredSizesWithinLimits ==
    \A template_id \in DOMAIN templates :
        /\ InRange(templates[template_id].width_mm)
        /\ InRange(templates[template_id].height_mm)

(***************************************************************************)
(* Single-element editor preview (routes/qr_template.py:267-304)           *)
(***************************************************************************)
\* routes/qr_template.py:278: the default of the request's mm_to_px, 24.6,
\* in hundredths like MM_TO_PX_x100
PREVIEW_MM_TO_PX_x100 == 2460

\* routes/qr_template.py:284-304, from the pixel box on
PreviewSized(data, width, height, lib) ==
    LET content == Get(data, "content", <<>>)
        preview_content == IF content # <<>> THEN content ELSE <<"S", "a", "m", "p", "l", "e">>
    IN  IF Has(data, "type") /\ data.type = "qr"
        THEN [status |-> 200, width |-> width, height |-> height,
              svg |-> GenerateQrSvg(JStr(preview_content), width, height,
                                    Get(data, "error_correction", "M"), lib.qr).fragment]
        ELSE IF Has(data, "type") /\ data.type = "barcode"
        THEN [status |-> 200, width |-> width, height |-> height,
              svg |-> GenerateBarcodeSvg(JStr(preview_content),
                                         Get(data, "format", "CODE128"), width, height,
                                         Get(data, "show_label", FALSE), lib.barcode).fragment]
        ELSE [status |-> 400, width |-> width, height |-> height]

\* routes/qr_template.py:271-282: the box is int(mm * mm_to_px) with the
\* factor the request carries
PreviewElement(data, lib) ==
    PreviewSized(data,
                 IntPx(Get(data, "width_mm", 10) * Get(data, "mm_to_px_x100", PREVIEW_MM_TO_PX_x100)),
                 IntPx(Get(data, "height_mm", 10) * Get(data, "mm_to_px_x100", PREVIEW_MM_TO_PX_x100)),
                 lib)

(***************************************************************************)
(* Editor preview specification                                            *)
(***************************************************************************)
\* JSON bodies of the editor: an element with its size in millimetres, and
\* the factor of the canvas, which the body may leave out
PreviewBodies ==
    {Partial([type |-> t, content |-> c, width_mm |-> w, height_mm |-> 10,
              mm_to_px_x100 |-> k, error_correction |-> ec, format |-> "EAN13",
              show_label |-> TRUE], fields) :
        t \in {"qr", "barcode", "text"}, c \in {<<>>, <<"1">>}, w \in {10, 20},
        k \in {MM_TO_PX_x100, PREVIEW_MM_TO_PX_x100, 1000}, ec \in {"L", "H"},
        fields \in {{"type", "content", "width_mm", "height_mm", "mm_to_px_x100",
                     "error_correction", "format", "show_label"},
                    {"type", "content", "width_mm", "height_mm"},
                    {"type"}}}

PreviewLibs ==
    [qr : [imports : {TRUE}, encode : BOOLEAN, svg_match : {TRUE}],
     barcode : [imports : {TRUE}, first : BOOLEAN, retry : {TRUE}]]

PreviewInit ==
    /\ \E data \in PreviewBodies, lib \in PreviewLibs :
          preview_args = [data |-> data, lib |-> lib]
    /\ preview_ret = Pending
    /\ CodesIdle /\ ResolveIdle /\ RenderIdle /\ ComposeIdle /\ StoreIdle /\ WorkersIdle

CallPreviewElement ==
    /\ preview_args # Unused
    /\ preview_ret = Pending
    /\ preview_ret' = PreviewElement(preview_args.data, preview_args.lib)
    /\ UNCHANGED <<preview_args, codes_vars, resolve_vars, render_vars, compose_vars,
                   store_vars, workers_vars>>

PreviewNext == CallPreviewElement

SpecPreview == PreviewInit /\ [][PreviewNext]_vars

(***************************************************************************)
(* Claims about the editor preview (SpecPreview)                           *)
(***************************************************************************)
\* C16: the single-element preview sizes its output with the factor of the
\* full render, MM_TO_PX, whatever the request carries: the pixel box of a
\* previewed element is int(width_mm * MM_TO_PX) by int(height_mm * MM_TO_PX),
\* the box render_template_to_svg gives the same element.
C16_PreviewUsesRenderFactor ==
    (preview_args # Unused /\ preview_ret # Pending /\ preview_ret.status = 200) =>
        /\ preview_ret.width =
              IntPx(Get(preview_args.data, "width_mm", 10) * MM_TO_PX_x100)
        /\ preview_ret.height =
              IntPx(Get(preview_args.data, "height_mm", 10) * MM_TO_PX_x100)

(***************************************************************************)
(* Claims about the error correction level and the fonts of a render       *)
(* (SpecRender)                                                            *)
(***************************************************************************)
\* Element i of the rendered layout came out as a QR code
IsQrFragment(i) ==
    /\ Has(RenderLayout[i], "type") /\ RenderLayout[i].type = "qr"
    /\ Len(render_ret.groups[i]) = 1
    /\ render_ret.groups[i][1].kind = "g"
    /\ render_ret.groups[i][1].fragment.kind = "qr"

\* C17: in a rendered template every QR element is encoded at the error
\* correction level stored in the element (M when it stores none), so two
\* QR elements that differ in error_correction only are encoded at
\* different levels.
C17_QrEncodedAtElementLevel ==
    (RenderCalled /\ render_ret.state = "returned") =>
        \A i \in DOMAIN RenderLayout :
            IsQrFragment(i) =>
                render_ret.groups[i][1].fragment.ec =
                    EcLevel(Get(RenderLayout[i], "error_correction", "M"))

(***************************************************************************)
(* Claims about font embedding in printed documents (SpecCompose)          *)
(***************************************************************************)
\* The embedded-font declarations a composed document holds for a font: the
\* @font-face rules of the wrapper and those inside each sticker's <svg>
Declarations(html, font_name) ==
    Cardinality({rule \in html.font_face_rules : rule.font_family = font_name})
    + Cardinality({i \in DOMAIN html.stickers :
                      \E d \in html.stickers[i].svg.font_styles :
                          d.font_family = font_name})

\* C18: the document composed for a batch of two or more records holds at
\* most one embedded-font declaration per project font of the template.
C18_BatchEmbedsFontOncePerDocument ==
    (BatchCalled /\ batch_ret.state = "returned" /\ Len(batch_args.records) >= 2) =>
        \A font_name \in FontsUsed(batch_args.template.layout) \ system_fonts :
            Declarations(batch_ret.bytes.html, font_name) <= 1

\* The files of a font in the order the code tries them: woff2, woff, ttf,
\* otf, for each the exact name before the -Regular one
Candidates(font_name) ==
    [i \in 1..(2 * Len(FontExtensions)) |->
        FontFile(font_name, IF i % 2 = 1 THEN "" ELSE "-Regular",
                 FontExtensions[(i + 1) \div 2])]

\* The highest-priority file of a font that exists
FirstFound(font_name, fonts_dir) ==
    LET c == Candidates(font_name)
        found == {i \in DOMAIN c : c[i] \in fonts_dir.files}
    IN  IF found = {} THEN {}
        ELSE {c[CHOOSE i \in found : \A j \in found : i <= j]}

SingleDocument ==
    IF single_ret.bytes.kind = "svg" THEN single_ret.bytes.document
    ELSE single_ret.bytes.html.stickers[1].svg

\* C19: for every font name that has a file in static/fonts exactly one
\* source is embedded, the first that exists in the order woff2, woff, ttf,
\* otf: in the vector document for each project font the template uses,
\* and in every @font-face rule of the PDF wrapper.  Stated for font files
\* that can be read.
C19_FirstFoundFontFileIsTheOnlySource ==
    (/\ SingleCalled /\ single_ret.state = "returned"
     /\ single_args.fonts_dir.unreadable = {}) =>
        /\ \A font_name \in FontsUsed(single_args.template.layout) \ system_fonts :
              {d.file : d \in {e \in SingleDocument.font_styles : e.font_family = font_name}}
                  = FirstFound(font_name, single_args.fonts_dir)
        /\ single_ret.bytes.kind = "pdf" =>
              \A rule \in single_ret.bytes.html.font_face_rules :
                  {rule.src[i].file : i \in DOMAIN rule.src}
                      = FirstFound(rule.font_family, single_args.fonts_dir)

\* routes/settings.py:88-97 and the renderer's 'default': the names of the
\* fonts that are the system's
SystemFontNames == system_fonts \cup {"default"}

\* C20: no embedded-font declaration is produced for a system font name,
\* in the vector document or in the PDF wrapper, whatever static/fonts
\* holds.
C20_SystemFontsNeverEmbedded ==
    (SingleCalled /\ single_ret.state = "returned") =>
        /\ \A d \in SingleDocument.font_styles : d.font_family \notin SystemFontNames
        /\ single_ret.bytes.kind = "pdf" =>
              \A rule \in single_ret.bytes.html.font_face_rules :
                  rule.font_family \notin SystemFontNames

(***************************************************************************)
(* Claims about text nodes and font misses (SpecCompose, SpecRender)       *)
(***************************************************************************)
\* The text elements of a layout
TextElements(layout) ==
    {i \in DOMAIN layout : Has(layout[i], "type") /\ layout[i].type = "text"}

\* No file of the font is there to embed: none exists, or none that exists
\* can be read
FontMiss(font_name, fonts_dir) ==
    \A i \in DOMAIN Candidates(font_name) :
        \/ Candidates(font_name)[i] \notin fonts_dir.files
        \/ Candidates(font_name)[i] \in fonts_dir.unreadable

\* The text elements that name a font the system does not have and
\* static/fonts cannot give
MissedFonts ==
    {i \in TextElements(single_args.template.layout) :
        /\ Has(single_args.template.layout[i], "font_family")
        /\ single_args.template.layout[i].font_family \notin SystemFontNames \cup {""}
        /\ FontMiss(single_args.template.layout[i].font_family, single_args.fonts_dir)}

\* C21: when a text element of a well-formed layout names a non-system font
\* that has no file, or only files that cannot be read, the call returns a
\* document, the document holds no embedded-font declaration for that font,
\* and the element's text node carries the font name unchanged.
C21_FontMissKeepsNameAndEmbedsNothing ==
    (/\ SingleCalled
     /\ \A i \in DOMAIN single_args.template.layout :
            WellFormed(single_args.template.layout[i])) =>
        /\ single_ret.state = "returned"
        /\ \A i \in MissedFonts :
              LET font_name == single_args.template.layout[i].font_family
              IN  /\ \A d \in SingleDocument.font_styles : d.font_family # font_name
                  /\ Len(SingleDocument.groups[i]) = 1
                  /\ SingleDocument.groups[i][1].kind = "text"
                  /\ SingleDocument.groups[i][1].font_family = font_name

C21_Witness ==
    /\ SingleCalled
    /\ single_ret.state = "returned"
    /\ single_args.template.layout = <<CenteredText>>
    /\ MissedFonts = {1}
    /\ FontFile("Roboto", "", ".woff2") \in single_args.fonts_dir.files
    /\ FontFile("Roboto", "", ".woff2") \in single_args.fonts_dir.unreadable
    /\ SingleDocument.font_styles = {}
    /\ SingleDocument.groups[1][1].font_family = "Roboto"

(***************************************************************************)
(* Text rendering specification: render_template_to_svg on layouts of one  *)
(* text element                                                            *)
(***************************************************************************)
MaxContentLen == 2       \* longest literal content of a text element

\* The characters the renderer escapes, and one it does not
MarkupChars == {"&", "<", ">", "\""}
ContentChars == MarkupChars \cup {"a"}

TextContents ==
    StringsOver(ContentChars, MaxContentLen)
        \cup {Token("ItemName"), <<"<">> \o Token("ItemName"), Token("SKU")}

\* Colours as the editor's colour input posts them, and one a client of the
\* template API may post
TextColors == {<<"#000000">>, <<"\"", ">", "<", "a", ">">>}

\* Text elements: every field the editor writes, and the optional ones
\* left out
FullTextElements ==
    {[type |-> "text", x_mm |-> JNum(x), y_mm |-> JNum(3), width_mm |-> JNum(w),
      height_mm |-> JNum(5), content |-> JStr(c), font_family |-> "Arial",
      font_size_mm |-> JNum(size), color |-> color, text_align |-> align] :
        x \in {0, 2}, w \in {5, 20}, c \in TextContents, size \in {0, 4},
        color \in TextColors, align \in {"left", "center", "right"}}

TextElementPool ==
    FullTextElements
        \cup {Drop(e, "font_size_mm") : e \in {f \in FullTextElements : f.font_size_mm.num = 4}}
        \cup {Drop(e, "text_align") : e \in {f \in FullTextElements : f.text_align = "left"}}

\* Items whose name holds markup
TextItems ==
    {[RenderItem EXCEPT !.name = n] :
        n \in {<<"<", "b", ">">>, <<"&", "\"">>, <<"&", "a", "m", "p", ";">>}}

TextInit ==
    /\ \E element \in TextElementPool, item \in TextItems :
            render_args = [template |-> RenderTemplate(<<element>>),
                           data |-> GetItemData(item),
                           libs |-> <<[imports |-> TRUE, first |-> TRUE, retry |-> TRUE,
                                       svg_match |-> TRUE]>>,
                           fonts_dir |-> RenderFontsDir]
    /\ render_ret = Pending
    /\ CodesIdle /\ ResolveIdle /\ ComposeIdle /\ StoreIdle /\ PreviewIdle /\ WorkersIdle

SpecText == TextInit /\ [][RenderNext]_vars

(***************************************************************************)
(* Claims about text nodes (SpecText)                                      *)
(***************************************************************************)
\* The one element of the rendered layout and the node written for it
TextElement == render_args.template.layout[1]
TextNode == render_ret.groups[1][1]

TextRendered ==
    /\ RenderCalled /\ render_ret.state = "returned"
    /\ Len(render_ret.groups[1]) = 1 /\ TextNode.kind = "text"

\* The placement of a text node is the one its text_align asks for
PlacedByAlign ==
    LET x_px == TextElement.x_mm.num * MM_TO_PX_x100
        w_px == TextElement.width_mm.num * MM_TO_PX_x100
    IN  /\ TextElement.text_align = "left"
            => TextNode.anchor = "start" /\ TextNode.x = x_px
        /\ TextElement.text_align = "center"
            => TextNode.anchor = "middle" /\ 2 * TextNode.x = 2 * x_px + w_px
        /\ TextElement.text_align = "right"
            => TextNode.anchor = "end" /\ TextNode.x = x_px + w_px

\* C22 as stated: for every text element with a text_align and a
\* font_size_mm, the node is placed by text_align and its font size is
\* font_size_mm * K.
C22_TextPlacedByAlignAndSizedInMm ==
    (TextRendered /\ Has(TextElement, "text_align") /\ Has(TextElement, "font_size_mm")) =>
        /\ PlacedByAlign
        /\ TextNode.font_size = TextElement.font_size_mm.num * MM_TO_PX_x100

\* C22 amended: the same for a font_size_mm that is not zero; a zero
\* font_size_mm gives the legacy pixel size instead.
C22_TextPlacedByAlignAndSizedInNonZeroMm ==
    (TextRendered /\ Has(TextElement, "text_align") /\ Has(TextElement, "font_size_mm")) =>
        /\ PlacedByAlign
        /\ TextElement.font_size_mm.num # 0
              => TextNode.font_size = TextElement.font_size_mm.num * MM_TO_PX_x100
        /\ TextElement.font_size_mm.num = 0
              => TextNode.font_size = Get(TextElement, "font_size", 12) * 100

C22_Witness ==
    /\ TextRendered
    /\ Has(TextElement, "text_align") /\ Has(TextElement, "font_size_mm")
    /\ TextElement.text_align = "center"
    /\ TextElement.x_mm.num = 2 /\ TextElement.width_mm.num = 5
    /\ TextElement.font_size_mm.num = 4
    /\ TextNode.anchor = "middle"
    /\ TextNode.x = 1701
    /\ TextNode.font_size = 1512

\* The entity of a markup-significant character
Entity(c) ==
    CASE c = "&"  -> <<"&", "a", "m", "p", ";">>
      [] c = "<"  -> <<"&", "l", "t", ";">>
      [] c = ">"  -> <<"&", "g", "t", ";">>
      [] c = "\"" -> <<"&", "q", "u", "o", "t", ";">>
      [] OTHER    -> <<c>>

\* A string with each of its characters escaped once, left to right
RECURSIVE EscapeOnce(_)
EscapeOnce(s) == IF s = <<>> THEN <<>> ELSE Entity(Head(s)) \o EscapeOnce(Tail(s))

\* The content of the element after placeholder resolution
ResolvedContent ==
    ReplacePlaceholders(Get(TextElement, "content", JStr(<<>>)).str, render_args.data).text

\* The content of the text node is the resolved content escaped once
ContentEscapedOnce == TextNode.content = EscapeOnce(ResolvedContent)

\* C23: the content of every text node is the resolved string with each
\* '&', '<', '>' and '"' replaced by its entity exactly once, and the other
\* template-supplied string of the element written into the document, its
\* colour, is escaped the same way.
C23_EveryWrittenStringIsEscapedOnce ==
    TextRendered =>
        /\ ContentEscapedOnce
        /\ Has(TextElement, "color") => TextNode.fill = EscapeOnce(TextElement.color)

(***************************************************************************)
(* Claims about what rendering and composition leave behind (SpecCompose)  *)
(***************************************************************************)
\* C24: no step of a single or batch sticker call, returning a PDF, the
\* vector document of the fallback, or raising, changes the template (name,
\* type, size, layout), the entity or the entity's data map it was handed.
C24_RenderAndComposeLeaveInputsUnchanged ==
    [][/\ single_args # Unused =>
            /\ single_args'.template = single_args.template
            /\ single_args'.item = single_args.item
            /\ single_args'.data = single_args.data
       /\ batch_args # Unused =>
            /\ batch_args'.template = batch_args.template
            /\ batch_args'.records = batch_args.records
            /\ batch_args'.data_getter = batch_args.data_getter]_vars

C24_Witness ==
    /\ SingleCalled
    /\ single_ret.state = "returned"
    /\ single_ret.bytes.kind = "svg"
    /\ single_args.engine.write = "raises"
    /\ single_args.template = ComposeTemplate("Items", <<PlainText, TextIn("OpenDyslexic")>>)
    /\ single_args.data = GetItemData(single_args.item)

(***************************************************************************)
(* Concurrent render calls: each request runs render_template_to_svg, or   *)
(* generate_single_sticker_pdf around it, in its own frame; the steps of   *)
(* different calls interleave                                              *)
(***************************************************************************)
MaxWorkers == 2          \* most calls in progress at once

Workers == 1..MaxWorkers

\* The arguments of the calls in progress
CallLayouts == {<<CenteredText>>, <<PlainText, QrCode>>, <<Drop(CenteredText, "x_mm")>>}

CallArgs ==
    {a \in {[kind |-> kind, template |-> RenderTemplate(layout),
             data |-> GetItemData(ComposeItem("x", "1")),
             libs |-> [i \in DOMAIN layout |->
                          [imports |-> TRUE, first |-> TRUE, retry |-> TRUE,
                           svg_match |-> TRUE]],
             engine |-> [imports |-> TRUE, write |-> write]] :
                kind \in {"render", "single"}, layout \in CallLayouts,
                write \in {"pdf", "raises"}} :
        a.kind = "render" => a.engine.write = "pdf"}

\* The frame of a call that has not run a statement yet
NewCall(args, fonts_dir) ==
    [args |-> args, fonts_dir |-> fonts_dir, pc |-> "fonts", font_styles |-> {},
     idx |-> 1, groups |-> <<>>, svg |-> Pending, ret |-> Pending]

\* qr_utils.py:140-226 with a document shared by the calls: the nodes of
\* the element are appended to every document being built
MutSharedDocument(cs, w) ==
    LET call == cs[w]
        r == RenderElement(call.args.template.layout[call.idx], call.args.data,
                           call.args.libs[call.idx])
    IN  IF r.raised
        THEN [cs EXCEPT ![w].pc = "done",
                        ![w].ret = IF call.args.kind = "render"
                                   THEN [state |-> "raised", at |-> call.idx]
                                   ELSE [state |-> "raised", exception |-> "render"]]
        ELSE [v \in DOMAIN cs |->
                 IF v = w
                 THEN [cs[v] EXCEPT !.groups = Append(@, r.nodes), !.idx = @ + 1]
                 ELSE IF cs[v].pc = "loop"
                 THEN [cs[v] EXCEPT !.groups = Append(@, r.nodes)]
                 ELSE cs[v]]

\* qr_utils.py:140-226, one pass of the loop in call w: the nodes of the
\* element are appended to the call's own svg string; an exception leaves
\* render_template_to_svg, and generate_single_sticker_pdf with it (407)
StepElement(cs, w) ==
    LET call == cs[w]
        r == RenderElement(call.args.template.layout[call.idx], call.args.data,
                           call.args.libs[call.idx])
    IN  IF r.raised
        THEN [cs EXCEPT ![w].pc = "done",
                        ![w].ret = IF call.args.kind = "render"
                                   THEN [state |-> "raised", at |-> call.idx]
                                   ELSE [state |-> "raised", exception |-> "render"]]
        ELSE [cs EXCEPT ![w].groups = Append(@, r.nodes), ![w].idx = @ + 1]

\* qr_utils.py:134-136, 228-230: the document the call has built
BuiltDocument(call) ==
    [state |-> "returned",
     width |-> call.args.template.width_mm * MM_TO_PX_x100,
     height |-> call.args.template.height_mm * MM_TO_PX_x100,
     font_styles |-> call.font_styles,
     background |-> [kind |-> "rect", width |-> call.args.template.width_mm * MM_TO_PX_x100,
                     height |-> call.args.template.height_mm * MM_TO_PX_x100,
                     fill |-> "white", stroke |-> "black"],
     groups |-> call.groups, closed |-> TRUE]

WorkersInit ==
    /\ \E fonts_dir \in {RenderFontsDir, [files |-> {}, unreadable |-> {}]},
          args \in [Workers -> CallArgs] :
            calls = [w \in Workers |-> NewCall(args[w], fonts_dir)]
    /\ CodesIdle /\ ResolveIdle /\ RenderIdle /\ ComposeIdle /\ StoreIdle /\ PreviewIdle

\* qr_utils.py:93-132
CollectFonts ==
    \E w \in DOMAIN calls :
        /\ calls[w].pc = "fonts"
        /\ calls' = [calls EXCEPT
                        ![w].font_styles = FontStyles(calls[w].args.template.layout,
                                                      calls[w].fonts_dir),
                        ![w].pc = "loop"]
        /\ UNCHANGED <<codes_vars, resolve_vars, render_vars, compose_vars, store_vars,
                       preview_vars>>

RenderOneElement ==
    \E w \in DOMAIN calls :
        /\ calls[w].pc = "loop"
        /\ calls[w].idx <= Len(calls[w].args.template.layout)
        /\ calls' = StepElement(calls, w)
        /\ UNCHANGED <<codes_vars, resolve_vars, render_vars, compose_vars, store_vars,
                       preview_vars>>

\* qr_utils.py:228-230: the document is closed and returned, to the caller
\* of a render, or to generate_single_sticker_pdf (407)
CloseDocument ==
    \E w \in DOMAIN calls :
        /\ calls[w].pc = "loop"
        /\ calls[w].idx > Len(calls[w].args.template.layout)
        /\ calls' = IF calls[w].args.kind = "render"
                    THEN [calls EXCEPT ![w].ret = BuiltDocument(calls[w]), ![w].pc = "done"]
                    ELSE [calls EXCEPT ![w].svg = BuiltDocument(calls[w]), ![w].pc = "compose"]
        /\ UNCHANGED <<codes_vars, resolve_vars, render_vars, compose_vars, store_vars,
                       preview_vars>>

\* qr_utils.py:409-551
ComposePdf ==
    \E w \in DOMAIN calls :
        /\ calls[w].pc = "compose"
        /\ calls' = [calls EXCEPT
                        ![w].ret = WritePdfOrFallback(calls[w].svg, calls[w].args.template,
                                                      calls[w].fonts_dir, calls[w].args.engine),
                        ![w].pc = "done"]
        /\ UNCHANGED <<codes_vars, resolve_vars, render_vars, compose_vars, store_vars,
                       preview_vars>>

WorkersNext == CollectFonts \/ RenderOneElement \/ CloseDocument \/ ComposePdf

SpecWorkers == WorkersInit /\ [][WorkersNext]_vars

(***************************************************************************)
(* Claims about concurrent calls (SpecWorkers)                             *)
(***************************************************************************)
\* What a call returns when it runs alone
RunAlone(call) ==
    IF call.args.kind = "render"
    THEN RenderTemplateToSvg(call.args.template, call.args.data, call.args.libs,
                             call.fonts_dir)
    ELSE GenerateSingleStickerPdf(call.args.template, call.args.data, call.args.libs,
                                  call.fonts_dir, call.args.engine)

\* C25: however the steps of the calls in progress interleave, a call that
\* has returned has returned the document it returns when run alone on the
\* same template, data and font directory.
C25_InterleavedCallsReturnWhatTheyReturnAlone ==
    \A w \in DOMAIN calls :
        calls[w].pc = "done" => calls[w].ret = RunAlone(calls[w])

\* two calls on different layouts, the first returned while the second was
\* inside its loop
C25_Witness ==
    /\ DOMAIN calls = Workers
    /\ calls[1].pc = "done" /\ calls[1].ret.state = "returned"
    /\ calls[1].args.template.layout = <<PlainText, QrCode>>
    /\ calls[2].args.template.layout = <<CenteredText>>
    /\ calls[2].pc = "loop" /\ calls[2].idx = 2

(***************************************************************************)
(* Claims about the formats handed to the barcode encoder (SpecCodes)      *)
(***************************************************************************)
\* C30: on every encoding attempt of generate_barcode_svg the format handed
\* to the encoder is one of CODE128, CODE39, EAN13, EAN8, UPCA, UPCE; a
\* requested format outside this set is attempted as CODE128; and a
\* numeric-only symbology is attempted only for data that is all digits and
\* not brace-wrapped.
C30_EncoderFormatsAreValidAndNumericOnlyForDigits ==
    BarcodeCalled =>
        \A i \in DOMAIN barcode_ret.attempts :
            /\ barcode_ret.attempts[i].format \in valid_formats
            /\ barcode_args.format_type \notin valid_formats
                  => barcode_ret.attempts[i].format = "CODE128"
            /\ barcode_ret.attempts[i].format \in NumericOnlyFormats
                  => BarcodeDataAllDigits /\ ~BarcodeDataBraceWrapped

C30_Witness ==
    /\ BarcodeCalled
    /\ barcode_args.format_type = "ITF"
    /\ BarcodeDataAllDigits
    /\ Len(barcode_ret.attempts) = 2
    /\ barcode_ret.attempts[1].format = "CODE128"
    /\ barcode_ret.attempts[2].format = "CODE128"

(***************************************************************************)
(* Font list specification: a text element in a font the editor's font     *)
(* list offers is rendered                                                 *)
(***************************************************************************)
\* routes/settings.py:99-116, the project fonts of get_available_fonts: the
\* name of every file with a font extension, cut at its last '-'
ProjectFontNames(fonts_dir) == {file.base : file \in fonts_dir.files}

\* Files static/fonts may hold, styles other than Regular among them
ListedFontPool ==
    {FontFile("Roboto", "", ".woff2"), FontFile("Roboto", "-Regular", ".ttf"),
     FontFile("Roboto", "-Bold", ".ttf"), FontFile("Lato", "-Italic", ".otf"),
     FontFile("Lato", "-Regular", ".woff"), FontFile("Inter", "-Bold", ".woff2")}

FontListInit ==
    /\ \E files \in SUBSET ListedFontPool, data \in RenderData :
          \E font_name \in ProjectFontNames([files |-> files, unreadable |-> {}]) :
              render_args = [template |-> RenderTemplate(<<TextIn(font_name)>>),
                             data |-> data,
                             libs |-> <<[imports |-> TRUE, first |-> TRUE, retry |-> TRUE,
                                         svg_match |-> TRUE]>>,
                             fonts_dir |-> [files |-> files, unreadable |-> {}]]
    /\ render_ret = Pending
    /\ CodesIdle /\ ResolveIdle /\ ComposeIdle /\ StoreIdle /\ PreviewIdle /\ WorkersIdle

SpecFontList == FontListInit /\ [][RenderNext]_vars

(***************************************************************************)
(* Claims about listed fonts (SpecFontList)                                *)
(***************************************************************************)
\* C29: when a text element uses a project font name that
\* get_available_fonts lists for the font directory, the rendered document
\* holds an embedded-font declaration for that name.
C29_ListedProjectFontIsEmbedded ==
    (RenderCalled /\ render_ret.state = "returned") =>
        \A font_name \in FontsUsed(RenderLayout) \cap ProjectFontNames(render_args.fonts_dir) :
            \E d \in render_ret.font_styles : d.font_family = font_name

(***************************************************************************)
(* Claims about stored layouts and rejected updates (SpecStore)            *)
(***************************************************************************)
GeometryFields == {"x_mm", "y_mm", "width_mm", "height_mm"}

\* C26: after any sequence of requests to the template routes, every
\* element of every stored layout has non-negative x_mm, y_mm, width_mm and
\* height_mm.
C26_StoredGeometryIsNonNegative ==
    \A id \in DOMAIN templates :
        \A i \in DOMAIN templates[id].layout :
            \A f \in GeometryFields \cap DOMAIN templates[id].layout[i] :
                /\ IsNum(templates[id].layout[i][f])
                /\ templates[id].layout[i][f].num >= 0

\* The replies with which the PUT of the template API reports an error
PutErrors == {"invalid", "error", "out of range", "layout error"}

\* C28: a PUT of the template API that answers with an error (a size that
\* is out of range or not a number, a failure while the layout is applied,
\* a refused commit) leaves every stored template as it was: name, width_mm,
\* height_mm and layout.
C28_RejectedUpdateChangesNothing ==
    [][(store_reply'.route = "api_qr_template PUT" /\ store_reply'.status \in PutErrors)
          => templates' = templates]_vars

\* the layout could not be applied after the name and sizes of the request
\* had been assigned to the row
C28_Witness ==
    /\ store_reply = Reply("api_qr_template PUT", "layout error")
    /\ 1 \in DOMAIN templates
    /\ templates[1].name = "a"
    /\ templates[1].width_mm = Num(30)
    /\ templates[1].layout = <<QrCode>>

(***************************************************************************)
(* Claims about template types (SpecTypes)                                 *)
(***************************************************************************)
TemplateTypes == {"Items", "Locations", "Racks"}

\* The token vocabulary of a type: the keys of the token table its entities
\* are resolved with (get_item_data, get_location_data, get_rack_data)
Vocabulary(template_type) ==
    CASE template_type = "Items" ->
            Keys(GetItemData(RenderItem))
      [] template_type = "Locations" ->
            Keys(GetLocationData(CHOOSE l \in Locations : TRUE, 0))
      [] template_type = "Racks" ->
            Keys(GetRackData(CHOOSE r \in Racks : TRUE, 0))

\* C27: every stored template has one of the three types, and the
\* placeholder list the editor page and the template API offer for a
\* template of one of these types is that type's own, non-empty vocabulary.
C27_TypeIsClosedAndSelectsVocabulary ==
    /\ \A id \in DOMAIN templates : templates[id].template_type \in TemplateTypes
    /\ (/\ store_reply # Pending
        /\ store_reply.route \in {"edit_qr_template", "api_qr_template GET"}
        /\ store_reply.status = "ok"
        /\ store_reply.type \in TemplateTypes)
          => /\ store_reply.placeholders # <<>>
             /\ Range(store_reply.placeholders) = Vocabulary(store_reply.type)

====
